---- MODULE Spec2Model ----
(***************************************************************************)
(* Model of the external tool connection manager (MCPClientManager,        *)
(* backend/app/mcp_integration/manager.py): the manager's maps, its        *)
(* asyncio lock, the supervised per-provider tasks of _connect_and_monitor *)
(* and the callers of initialize_from_config / close_all_connections.      *)
(* One action is one run of a coroutine between two suspension points of   *)
(* the event loop.                                                         *)
(***************************************************************************)
EXTENDS FiniteSets, Integers, Sequences, TLC

\* ------------------------------------------------------------------ bounds
\* Provider names that a configuration may hold, and the coroutines that call
\* the manager's lifecycle operations.
Providers == {"p1", "p2"}
Callers == {"c1", "c2"}
\* Supervised tasks ever created, and consecutive failed attempts of one task.
MaxTasks == 2
MaxAttempt == 4
\* Calls of get_available_tools and of execute_mcp_tool ever made.
ListCallIds == {"l1", "l2"}
ExecCallIds == {"e1"}
\* Length of a provider name and of a tool name, and of what follows "mcp-"
\* in a name given to execute_mcp_tool.
MaxNameLen == 3
MaxSuffixLen == 5
\* Chunks or events of an unscripted vendor stream that a generator receives,
\* and tool rounds the vendor asks for.
MaxChunks == 6
MaxFragments == 5
MaxRounds == 2
GeminiMaxChunks == 3

TaskIds == 1..MaxTasks
NoCaller == "none"
None == "None"

\* ------------------------------------------------------- program constants
initial_retry_delay == 5
max_retry_delay == 60

\* ------------------------------------------------------------ dict helpers
EmptyMap == [k \in {} |-> 0]
MapPut(m, k, v) == [x \in (DOMAIN m) \cup {k} |-> IF x = k THEN v ELSE m[x]]
MapDel(m, k) == [x \in (DOMAIN m) \ {k} |-> m[x]]
MapValues(m) == {m[k] : k \in DOMAIN m}
Min(a, b) == IF a < b THEN a ELSE b

\* --------------------------------------------------- configuration entries
\* One entry of the "mcpServers" dict: its "type" field and whether it holds
\* the "command" / "url" field.  The entries tried: a stdio entry, an http
\* entry, an entry of type stdio that holds a url and no command, and an entry
\* with neither command nor url.
ConfigEntries ==
    {[type |-> "stdio", command |-> TRUE, url |-> FALSE],
     [type |-> "http", command |-> FALSE, url |-> TRUE],
     [type |-> "stdio", command |-> FALSE, url |-> TRUE],
     [type |-> "stdio", command |-> FALSE, url |-> FALSE]}

\* Union[StdioServerConfig, HttpServerConfig]: "type" is an unconstrained str
\* in both models, so the member that validates is decided by the required
\* field the entry holds ("command" or "url"); with neither, validation fails.
ValidatedClass(e) ==
    IF e.command THEN "StdioServerConfig"
    ELSE IF e.url THEN "HttpServerConfig"
    ELSE "ValidationError"

\* McpServersConfig.model_validate: the whole dict validates or none of it.
model_validate(servers) ==
    \A n \in DOMAIN servers : ValidatedClass(servers[n]) # "ValidationError"

\* InternalServerDefinition(name, type, config)
InternalServerDefinition(n, e) ==
    [name |-> n, type |-> e.type, config |-> ValidatedClass(e)]

\* The arguments of initialize_from_config: no usable source ("missing": no
\* path and no data, file not found, JSON error), a top level without an
\* "mcpServers" dict ("malformed"), or a servers dict.
ConfigInputs ==
    {[kind |-> k, servers |-> EmptyMap] : k \in {"missing", "malformed"}} \cup
    {[kind |-> "data", servers |-> f] :
        f \in UNION {[S -> ConfigEntries] : S \in SUBSET Providers}}

\* capabilities of an init_result: with or without the tools capability
Capabilities == {"tools", "no_tools"}

\* ------------------------------------------------------------------- state
VARIABLES
    sessions,            \* _sessions: name -> the task whose ClientSession it is
    server_capabilities, \* _server_capabilities: name -> capabilities
    server_definitions,  \* _server_definitions: name -> InternalServerDefinition
    connection_tasks,    \* _connection_tasks: name -> task
    is_initialized,      \* _is_initialized
    lock_owner,          \* _lock: the caller holding it, or NoCaller
    lock_waiters,        \* _lock: FIFO of the callers waiting for it
    tasks,               \* the asyncio tasks created by _start_connection
    cpc,                 \* where each caller is
    tasks_to_cancel,     \* close_all_connections: the local of each caller
    last_init,           \* outcome of the last call of initialize_from_config
                         \* that reached a servers dict
    list_calls,          \* the calls of get_available_tools
    exec_calls,          \* the calls of execute_mcp_tool
    resolution,          \* a tool name emitted, and what execute_mcp_tool
                         \* resolves it to
    definition,          \* a tool definition: what it is made from, and
                         \* what a vendor is sent for it
    request,             \* handle_chat_request: the tools of one chat request
    stream,              \* what the vendor sends to a stream generator
    gen,                 \* the locals of the stream generator
    emitted              \* the events the generator has yielded to its caller

mgr_vars == <<sessions, server_capabilities, server_definitions,
              connection_tasks, is_initialized>>
lifecycle_vars ==
    <<sessions, server_capabilities, server_definitions, connection_tasks,
      is_initialized, lock_owner, lock_waiters, tasks, cpc, tasks_to_cancel,
      last_init>>
client_vars == <<list_calls, exec_calls>>
\* what the manager's lifecycle operations and tasks never touch
pure_vars == <<resolution, definition>>
\* one chat request: its tools, and the generator that streams its answer
request_vars == <<request>>
loop_vars == <<stream, gen, emitted>>
handler_vars == <<request_vars, loop_vars>>
other_vars == <<client_vars, pure_vars, handler_vars>>
vars == <<lifecycle_vars, other_vars>>

\* A task that was never created, and the record of a created one.  pc is the
\* await the coroutine is suspended at; stack is what its AsyncExitStack
\* holds; must_cancel is asyncio's pending cancellation request; cb_pending
\* says the done callback is scheduled and has not run yet; attempt counts
\* the backoff waits completed since the last successful handshake; shut says
\* close_all_connections raised the shutdown flag while the task was running.
Unborn ==
    [name |-> "", type |-> "", config |-> "", pc |-> "unborn",
     retry_delay |-> initial_retry_delay, attempt |-> 0, must_cancel |-> FALSE,
     exiting |-> FALSE, stack |-> "none", transport_ok |-> TRUE,
     cb_pending |-> FALSE, shut |-> FALSE]

\* Mutant: the coroutine is run up to its connection attempt instead of being
\* scheduled.
create_task_inline(n, d) ==
    [Unborn EXCEPT !.name = n, !.type = d.type, !.config = d.config,
                   !.pc = "connecting"]

\* asyncio.create_task(self._connect_and_monitor(name, definition)): the new
\* task has not run yet.
create_task(n, d) ==
    [Unborn EXCEPT !.name = n, !.type = d.type, !.config = d.config,
                   !.pc = "loop"]

\* The task ends: its locals are gone, its done callback is scheduled.
Finished(tk) ==
    [Unborn EXCEPT !.name = tk.name, !.pc = "done", !.cb_pending = TRUE,
                   !.shut = tk.shut]

done(tk) == tk.pc = "done"
Born == {t \in TaskIds : tasks[t].pc # "unborn"}
Running == {t \in TaskIds : tasks[t].pc \notin {"unborn", "done"}}

\* A call of get_available_tools that was not made yet.  snap is
\* active_sessions_data (name -> session, a session being named by the task
\* that holds it), fetch is where each fetch_and_convert_tools coroutine is,
\* all_canonical_tools is the list the call builds.
NoListCall ==
    [pc |-> "idle", snap |-> EmptyMap, fetch |-> EmptyMap,
     all_canonical_tools |-> {}]

\* A call of execute_mcp_tool that was not made yet.  invoked says
\* session.call_tool was called; raised is the class of the exception the call
\* ended with and cause the statement that raised it.
NoExecCall ==
    [pc |-> "idle", server_name |-> None, session |-> 0, invoked |-> FALSE,
     raised |-> None, cause |-> None]

\* No tool name is being emitted or resolved.
NoResolution == [phase |-> "none"]

\* No tool definition is being made or converted.
NoDefinition == [phase |-> "none"]

\* No chat request is being handled, and no generator runs.
NoRequest == [pc |-> "none"]
NoStream == [vendor |-> None]
NoGen == [pc |-> "none"]
HandlerIdle ==
    /\ request = NoRequest
    /\ stream = NoStream
    /\ gen = NoGen
    /\ emitted = <<>>

\* No call of the manager's tool operations is under way.
ClientIdle ==
    /\ list_calls = [k \in ListCallIds |-> NoListCall]
    /\ exec_calls = [k \in ExecCallIds |-> NoExecCall]

Init ==
    /\ ClientIdle
    /\ HandlerIdle
    /\ resolution = NoResolution
    /\ definition = NoDefinition
    /\ sessions = EmptyMap
    /\ server_capabilities = EmptyMap
    /\ server_definitions = EmptyMap
    /\ connection_tasks = EmptyMap
    /\ is_initialized = FALSE
    /\ lock_owner = NoCaller
    /\ lock_waiters = <<>>
    /\ tasks = [t \in TaskIds |-> Unborn]
    /\ cpc = [c \in Callers |-> "idle"]
    /\ tasks_to_cancel = [c \in Callers |-> {}]
    /\ last_init = "none"


\* ------------------------------------------------- initialize_from_config
\* _start_connection on the pair st = [ct |-> _connection_tasks, tk |-> tasks]:
\* a running task registered under the name is reused, else a task is created,
\* registered under the name and given its done callback.
start_connection(st, n, d) ==
    IF n \in DOMAIN st.ct /\ ~done(st.tk[st.ct[n]])
    THEN st
    ELSE LET id == Cardinality({t \in TaskIds : st.tk[t].pc # "unborn"}) + 1
         IN [ct |-> MapPut(st.ct, n, id),
             tk |-> [st.tk EXCEPT ![id] = create_task(n, d)]]

\* for name, definition in self._server_definitions.items(): _start_connection
RECURSIVE start_all(_, _, _)
start_all(st, defs, names) ==
    IF names = {} THEN st
    ELSE LET n == CHOOSE x \in names : TRUE
         IN start_all(start_connection(st, n, defs[n]), defs, names \ {n})

\* Mutant: a ValidationError is logged and the valid entries are started.
initialize_from_config_per_provider(cfg) ==
    IF is_initialized \/ cfg.kind # "data"
    THEN UNCHANGED <<mgr_vars, tasks, last_init>>
    ELSE LET ok == {n \in DOMAIN cfg.servers :
                       ValidatedClass(cfg.servers[n]) # "ValidationError"}
             defs == [n \in ok |-> [name |-> n, type |-> cfg.servers[n].type,
                                    config |-> ValidatedClass(cfg.servers[n])]]
             ids == CHOOSE f \in [ok -> TaskIds] :
                       /\ \A n \in ok : tasks[f[n]].pc = "unborn"
                       /\ \A n, m \in ok : f[n] = f[m] => n = m
         IN /\ Cardinality({t \in TaskIds : tasks[t].pc # "unborn"})
                  + Cardinality(ok) <= MaxTasks
            /\ server_definitions' = defs
            /\ connection_tasks' = ids
            /\ tasks' = [t \in TaskIds |->
                            IF \E n \in ok : ids[n] = t
                            THEN [Unborn EXCEPT
                                    !.name = CHOOSE n \in ok : ids[n] = t,
                                    !.type = defs[CHOOSE n \in ok : ids[n] = t].type,
                                    !.config = defs[CHOOSE n \in ok : ids[n] = t].config,
                                    !.pc = "loop"]
                            ELSE tasks[t]]
            /\ is_initialized' = TRUE
            /\ last_init' = IF ok = DOMAIN cfg.servers
                             THEN (IF ok = {} THEN "empty" ELSE "started")
                             ELSE IF ok = {} THEN "validation_error_none_valid"
                             ELSE "validation_error_some_valid"
            /\ UNCHANGED <<sessions, server_capabilities>>

\* The ValidationError that is logged: whether some entries were valid.
validation_error(servers) ==
    IF \E n \in DOMAIN servers : ValidatedClass(servers[n]) # "ValidationError"
    THEN "validation_error_some_valid"
    ELSE "validation_error_none_valid"

\* The body of initialize_from_config under the lock; it has no suspension
\* point, so it is one step.
initialize_from_config(cfg) ==
    IF is_initialized
    THEN UNCHANGED <<mgr_vars, tasks, last_init>>
    ELSE IF cfg.kind # "data"
    THEN UNCHANGED <<mgr_vars, tasks, last_init>>
    ELSE IF DOMAIN cfg.servers = {}
    THEN /\ is_initialized' = TRUE
         /\ last_init' = "empty"
         /\ UNCHANGED <<sessions, server_capabilities, server_definitions,
                        connection_tasks, tasks>>
    ELSE IF ~model_validate(cfg.servers)
    THEN /\ server_definitions' = EmptyMap
         /\ last_init' = validation_error(cfg.servers)
         /\ UNCHANGED <<sessions, server_capabilities, connection_tasks,
                        is_initialized, tasks>>
    ELSE LET defs == [n \in DOMAIN cfg.servers |->
                        InternalServerDefinition(n, cfg.servers[n])]
             st == start_all([ct |-> connection_tasks, tk |-> tasks],
                             defs, DOMAIN defs)
         IN /\ Cardinality(Born) + Cardinality(DOMAIN defs) <= MaxTasks
            /\ server_definitions' = defs
            /\ connection_tasks' = st.ct
            /\ tasks' = st.tk
            /\ is_initialized' = TRUE
            /\ last_init' = "started"
            /\ UNCHANGED <<sessions, server_capabilities>>

\* async with self._lock, lock free and nobody queued: acquired at once.
LockFree == lock_owner = NoCaller /\ lock_waiters = <<>>

Initialize(c) ==
    /\ cpc[c] = "idle"
    /\ LockFree
    /\ \E cfg \in ConfigInputs : initialize_from_config(cfg)
    /\ UNCHANGED <<lock_owner, lock_waiters, cpc, tasks_to_cancel>>
    /\ UNCHANGED other_vars

\* async with self._lock while the lock is held or queued for: the caller of
\* op ("init_wait" or "close_wait") joins the FIFO of waiters.
WaitForLock(c, op) ==
    /\ cpc[c] = "idle"
    /\ ~LockFree
    /\ lock_waiters' = Append(lock_waiters, c)
    /\ cpc' = [cpc EXCEPT ![c] = op]
    /\ UNCHANGED <<mgr_vars, lock_owner, tasks, tasks_to_cancel, last_init>>
    /\ UNCHANGED other_vars

InitializeAfterWait(c) ==
    /\ cpc[c] = "init_wait"
    /\ lock_owner = NoCaller
    /\ Head(lock_waiters) = c
    /\ \E cfg \in ConfigInputs : initialize_from_config(cfg)
    /\ lock_waiters' = Tail(lock_waiters)
    /\ cpc' = [cpc EXCEPT ![c] = "idle"]
    /\ UNCHANGED <<lock_owner, tasks_to_cancel>>
    /\ UNCHANGED other_vars

\* -------------------------------------------------- close_all_connections
\* task.cancel() for every task of the list that is not done
cancel_all(tk, ttc) ==
    [t \in TaskIds |->
        IF t \in ttc /\ ~done(tk[t])
        THEN [tk[t] EXCEPT !.must_cancel = TRUE]
        ELSE tk[t]]

\* self._is_initialized = False is seen by every task running at that time
flag_raised(tk) ==
    [t \in TaskIds |->
        IF tk[t].pc \notin {"unborn", "done"}
        THEN [tk[t] EXCEPT !.shut = TRUE]
        ELSE tk[t]]

\* Mutant: the flag is lowered and the maps are cleared, but no task is
\* cancelled or awaited.
close_all_connections_no_cancel(c, q) ==
    /\ lock_waiters' = q
    /\ UNCHANGED last_init
    /\ IF ~is_initialized
       THEN /\ lock_owner' = NoCaller
            /\ cpc' = [cpc EXCEPT ![c] = "idle"]
            /\ UNCHANGED <<mgr_vars, tasks, tasks_to_cancel>>
       ELSE /\ is_initialized' = FALSE
            /\ connection_tasks' = EmptyMap
            /\ tasks' = flag_raised(tasks)
            /\ lock_owner' = c
            /\ cpc' = [cpc EXCEPT ![c] = "close_sleep"]
            /\ sessions' = EmptyMap
            /\ server_capabilities' = EmptyMap
            /\ UNCHANGED <<server_definitions, tasks_to_cancel>>

\* Mutant: the "already shut down" guard is missing.
close_all_connections_unguarded(c, q) ==
    LET ttc == MapValues(connection_tasks)
    IN /\ lock_waiters' = q
       /\ UNCHANGED last_init
       /\ is_initialized' = FALSE
       /\ connection_tasks' = EmptyMap
       /\ tasks' = cancel_all(flag_raised(tasks), ttc)
       /\ lock_owner' = c
       /\ UNCHANGED server_definitions
       /\ IF ttc # {}
          THEN /\ cpc' = [cpc EXCEPT ![c] = "close_gather"]
               /\ tasks_to_cancel' = [tasks_to_cancel EXCEPT ![c] = ttc]
               /\ UNCHANGED <<sessions, server_capabilities>>
          ELSE /\ cpc' = [cpc EXCEPT ![c] = "close_sleep"]
               /\ sessions' = EmptyMap
               /\ server_capabilities' = EmptyMap
               /\ UNCHANGED tasks_to_cancel

\* close_all_connections of caller c from the lock's acquisition to its first
\* await (the gather, or the final sleep when there is no task), or to its
\* return when the manager is not initialized; q is the lock's queue then.
close_all_connections(c, q) ==
    /\ lock_waiters' = q
    /\ UNCHANGED last_init
    /\ IF ~is_initialized
       THEN /\ lock_owner' = NoCaller
            /\ cpc' = [cpc EXCEPT ![c] = "idle"]
            /\ UNCHANGED <<mgr_vars, tasks, tasks_to_cancel>>
       ELSE LET ttc == MapValues(connection_tasks)
            IN /\ is_initialized' = FALSE
               /\ connection_tasks' = EmptyMap
               /\ tasks' = cancel_all(flag_raised(tasks), ttc)
               /\ lock_owner' = c
               /\ UNCHANGED server_definitions
               /\ IF ttc # {}
                  THEN /\ cpc' = [cpc EXCEPT ![c] = "close_gather"]
                       /\ tasks_to_cancel' = [tasks_to_cancel EXCEPT ![c] = ttc]
                       /\ UNCHANGED <<sessions, server_capabilities>>
                  ELSE /\ cpc' = [cpc EXCEPT ![c] = "close_sleep"]
                       /\ sessions' = EmptyMap
                       /\ server_capabilities' = EmptyMap
                       /\ UNCHANGED tasks_to_cancel

Close(c) ==
    /\ cpc[c] = "idle"
    /\ LockFree
    /\ close_all_connections(c, lock_waiters)
    /\ UNCHANGED other_vars

CloseAfterWait(c) ==
    /\ cpc[c] = "close_wait"
    /\ lock_owner = NoCaller
    /\ Head(lock_waiters) = c
    /\ close_all_connections(c, Tail(lock_waiters))
    /\ UNCHANGED other_vars

\* Mutant: the cancelled tasks are not awaited.
gather_not_awaited(c) == TRUE

\* await asyncio.gather(*tasks_to_cancel, return_exceptions=True) returns:
\* every task of the list is done and, the gather's callback having been added
\* to each task after _start_connection's, the done callbacks have run.
gather_done(c) ==
    \A t \in tasks_to_cancel[c] : done(tasks[t]) /\ ~tasks[t].cb_pending

CloseGathered(c) ==
    /\ cpc[c] = "close_gather"
    /\ gather_done(c)
    /\ sessions' = EmptyMap
    /\ server_capabilities' = EmptyMap
    /\ cpc' = [cpc EXCEPT ![c] = "close_sleep"]
    /\ tasks_to_cancel' = [tasks_to_cancel EXCEPT ![c] = {}]
    /\ UNCHANGED <<server_definitions, connection_tasks, is_initialized,
                   lock_owner, lock_waiters, tasks, last_init>>
    /\ UNCHANGED other_vars

\* await asyncio.sleep(0.5) returns; the lock is released, the call returns.
CloseReturn(c) ==
    /\ cpc[c] = "close_sleep"
    /\ lock_owner' = NoCaller
    /\ cpc' = [cpc EXCEPT ![c] = "idle"]
    /\ UNCHANGED <<mgr_vars, lock_waiters, tasks, tasks_to_cancel, last_init>>
    /\ UNCHANGED other_vars


\* ---------------------------------------------------- _connect_and_monitor
\* Mutant: the finally block forgets the session entry.
finally_del_keeps_session(n) ==
    /\ server_capabilities' = MapDel(server_capabilities, n)
    /\ UNCHANGED sessions

\* finally: the provider's capability and session entries are deleted
finally_del(n) ==
    /\ server_capabilities' = MapDel(server_capabilities, n)
    /\ sessions' = MapDel(sessions, n)

task_vars_rest == <<server_definitions, connection_tasks, is_initialized,
                    lock_owner, lock_waiters, cpc, tasks_to_cancel, last_init>>

\* Mutant: any failure ends the task instead of starting the backoff.
after_finally_break(tk, brk) == Finished(tk)

\* After the finally block with nothing left to close: the loop is left when
\* the manager is shut down or a break is under way, else the backoff sleep
\* begins.
after_finally(tk, brk) ==
    IF ~is_initialized \/ brk
    THEN Finished(tk)
    ELSE [tk EXCEPT !.pc = "backoff", !.stack = "none", !.exiting = FALSE]

\* Mutant: an http definition is connected like a stdio one.
LoopHead_http_connects(t) ==
    LET tk == tasks[t] IN
    /\ tk.pc = "loop"
    /\ ~tk.must_cancel
    /\ IF ~is_initialized
       THEN /\ tasks' = [tasks EXCEPT ![t] = Finished(tk)]
            /\ UNCHANGED <<sessions, server_capabilities>>
       ELSE IF tk.config \in {"StdioServerConfig", "HttpServerConfig"}
       THEN /\ tasks' = [tasks EXCEPT ![t].pc = "connecting"]
            /\ UNCHANGED <<sessions, server_capabilities>>
       ELSE /\ finally_del(tk.name)
            /\ tasks' = [tasks EXCEPT ![t] = after_finally(tk, TRUE)]
    /\ UNCHANGED task_vars_rest
    /\ UNCHANGED other_vars

\* The head of the while loop: the first run of a new task, and each
\* re-entry after a backoff.  A stdio definition starts a connection attempt,
\* an http definition the stub's wait; a definition whose config object is of
\* the other class, or whose type is unknown, breaks out of the loop.
LoopHead(t) ==
    LET tk == tasks[t] IN
    /\ tk.pc = "loop"
    /\ ~tk.must_cancel
    /\ IF ~is_initialized
       THEN /\ tasks' = [tasks EXCEPT ![t] = Finished(tk)]
            /\ UNCHANGED <<sessions, server_capabilities>>
       ELSE IF tk.type = "stdio" /\ tk.config = "StdioServerConfig"
       THEN /\ tasks' = [tasks EXCEPT ![t].pc = "connecting"]
            /\ UNCHANGED <<sessions, server_capabilities>>
       ELSE IF tk.type = "http" /\ tk.config = "HttpServerConfig"
       THEN /\ tasks' = [tasks EXCEPT ![t].pc = "http_wait"]
            /\ UNCHANGED <<sessions, server_capabilities>>
       ELSE /\ finally_del(tk.name)
            /\ tasks' = [tasks EXCEPT ![t] = after_finally(tk, TRUE)]
    /\ UNCHANGED task_vars_rest
    /\ UNCHANGED other_vars

\* await exit_stack.enter_async_context(stdio_client(server_params)) returns
\* the streams, or raises (connection refused, command not found, any other
\* error): then the finally block runs with an empty exit stack.
Connect(t) ==
    LET tk == tasks[t] IN
    /\ tk.pc = "connecting"
    /\ ~tk.must_cancel
    /\ \/ /\ tasks' = [tasks EXCEPT ![t].pc = "session_enter",
                                    ![t].stack = "transport"]
          /\ UNCHANGED <<sessions, server_capabilities>>
       \/ /\ tk.attempt < MaxAttempt
          /\ finally_del(tk.name)
          /\ tasks' = [tasks EXCEPT ![t] = after_finally(tk, FALSE)]
    /\ UNCHANGED task_vars_rest
    /\ UNCHANGED other_vars

\* await exit_stack.enter_async_context(ClientSession(reader, writer))
SessionEnter(t) ==
    LET tk == tasks[t] IN
    /\ tk.pc = "session_enter"
    /\ ~tk.must_cancel
    /\ \/ /\ tasks' = [tasks EXCEPT ![t].pc = "handshaking",
                                    ![t].stack = "session"]
          /\ UNCHANGED <<sessions, server_capabilities>>
       \/ /\ tk.attempt < MaxAttempt
          /\ finally_del(tk.name)
          /\ tasks' = [tasks EXCEPT ![t].pc = "cleanup", ![t].exiting = FALSE]
    /\ UNCHANGED task_vars_rest
    /\ UNCHANGED other_vars

\* await session.initialize() returns: the session and its capabilities are
\* stored, retry_delay is reset and the monitoring loop is entered; or it
\* raises.
Handshake(t) ==
    LET tk == tasks[t] IN
    /\ tk.pc = "handshaking"
    /\ ~tk.must_cancel
    /\ \/ \E cap \in Capabilities :
            IF is_initialized
            THEN /\ sessions' = MapPut(sessions, tk.name, t)
                 /\ server_capabilities' =
                        MapPut(server_capabilities, tk.name, cap)
                 /\ tasks' = [tasks EXCEPT ![t].pc = "connected",
                                           ![t].retry_delay = initial_retry_delay,
                                           ![t].attempt = 0]
            ELSE /\ finally_del(tk.name)
                 /\ tasks' = [tasks EXCEPT ![t].pc = "cleanup",
                                           ![t].exiting = FALSE,
                                           ![t].retry_delay = initial_retry_delay,
                                           ![t].attempt = 0]
       \/ /\ tk.attempt < MaxAttempt
          /\ finally_del(tk.name)
          /\ tasks' = [tasks EXCEPT ![t].pc = "cleanup", ![t].exiting = FALSE]
    /\ UNCHANGED task_vars_rest
    /\ UNCHANGED other_vars

\* await asyncio.sleep(10) returns in the monitoring loop: the loop goes on
\* while the manager is initialized and the name is in _sessions.
Monitor(t) ==
    LET tk == tasks[t] IN
    /\ tk.pc = "connected"
    /\ ~tk.must_cancel
    /\ IF is_initialized /\ tk.name \in DOMAIN sessions
       THEN UNCHANGED <<sessions, server_capabilities, tasks>>
       ELSE /\ finally_del(tk.name)
            /\ tasks' = [tasks EXCEPT ![t].pc = "cleanup", ![t].exiting = FALSE]
    /\ UNCHANGED task_vars_rest
    /\ UNCHANGED other_vars

\* The provider's process or pipe fails while the session is held.  Nothing
\* in the monitoring loop observes it.
TransportFailure(t) ==
    LET tk == tasks[t] IN
    /\ tk.pc = "connected"
    /\ tk.transport_ok
    /\ tasks' = [tasks EXCEPT ![t].transport_ok = FALSE]
    /\ UNCHANGED <<sessions, server_capabilities, task_vars_rest>>
    /\ UNCHANGED other_vars

\* await asyncio.sleep(3600) of the http stub returns, then break
HttpStubWake(t) ==
    LET tk == tasks[t] IN
    /\ tk.pc = "http_wait"
    /\ ~tk.must_cancel
    /\ finally_del(tk.name)
    /\ tasks' = [tasks EXCEPT ![t] = after_finally(tk, TRUE)]
    /\ UNCHANGED task_vars_rest
    /\ UNCHANGED other_vars

\* await exit_stack.aclose() returns (its errors are caught and logged)
CleanupDone(t) ==
    LET tk == tasks[t] IN
    /\ tk.pc = "cleanup"
    /\ ~tk.must_cancel
    /\ tasks' = [tasks EXCEPT ![t] = after_finally(tk, tk.exiting)]
    /\ UNCHANGED <<sessions, server_capabilities, task_vars_rest>>
    /\ UNCHANGED other_vars

\* Mutant: the delay doubles without the cap.
next_retry_delay_uncapped(d) == d * 2

\* retry_delay = min(retry_delay * 2, max_retry_delay)
next_retry_delay(d) == Min(d * 2, max_retry_delay)

\* await asyncio.sleep(retry_delay) returns: the delay doubles up to the cap
BackoffDone(t) ==
    LET tk == tasks[t] IN
    /\ tk.pc = "backoff"
    /\ ~tk.must_cancel
    /\ tasks' = [tasks EXCEPT
            ![t].pc = "loop",
            ![t].retry_delay = next_retry_delay(tk.retry_delay),
            ![t].attempt = tk.attempt + 1]
    /\ UNCHANGED <<sessions, server_capabilities, task_vars_rest>>
    /\ UNCHANGED other_vars

\* Mutant: the CancelledError raised in the backoff sleep is swallowed and the
\* loop goes on as if the sleep had completed.
Cancelled_backoff_swallowed(t) ==
    LET tk == tasks[t] IN
    /\ tk.must_cancel
    /\ tk.pc \notin {"unborn", "done"}
    /\ IF tk.pc = "backoff"
       THEN /\ tasks' = [tasks EXCEPT ![t].pc = "loop",
                                      ![t].must_cancel = FALSE]
            /\ UNCHANGED <<sessions, server_capabilities>>
       ELSE IF tk.pc \in {"loop", "cleanup"}
       THEN /\ tasks' = [tasks EXCEPT ![t] = Finished(tk)]
            /\ UNCHANGED <<sessions, server_capabilities>>
       ELSE IF tk.stack = "none"
       THEN /\ finally_del(tk.name)
            /\ tasks' = [tasks EXCEPT ![t] = Finished(tk)]
       ELSE /\ finally_del(tk.name)
            /\ tasks' = [tasks EXCEPT ![t].pc = "cleanup",
                                      ![t].exiting = TRUE,
                                      ![t].must_cancel = FALSE]
    /\ UNCHANGED task_vars_rest
    /\ UNCHANGED other_vars

\* The task's next step after task.cancel(): CancelledError is raised at the
\* await it is suspended at.  A task that has not run yet ends without
\* running; inside the try block the error is caught (break) and the finally
\* block runs; in the finally block's aclose it is not caught and ends the
\* task while the exit stack unwinds; in the backoff sleep it is caught (break).
Cancelled(t) ==
    LET tk == tasks[t] IN
    /\ tk.must_cancel
    /\ tk.pc \notin {"unborn", "done"}
    /\ IF tk.pc \in {"loop", "backoff", "cleanup"}
       THEN /\ tasks' = [tasks EXCEPT ![t] = Finished(tk)]
            /\ UNCHANGED <<sessions, server_capabilities>>
       ELSE IF tk.stack = "none"
       THEN /\ finally_del(tk.name)
            /\ tasks' = [tasks EXCEPT ![t] = after_finally(tk, TRUE)]
       ELSE /\ finally_del(tk.name)
            /\ tasks' = [tasks EXCEPT ![t].pc = "cleanup",
                                      ![t].exiting = TRUE,
                                      ![t].must_cancel = FALSE]
    /\ UNCHANGED task_vars_rest
    /\ UNCHANGED other_vars

\* task.add_done_callback(lambda t: self._connection_tasks.pop(name, None))
DoneCallback(t) ==
    LET tk == tasks[t] IN
    /\ tk.cb_pending
    /\ connection_tasks' = MapDel(connection_tasks, tk.name)
    /\ tasks' = [tasks EXCEPT ![t].cb_pending = FALSE]
    /\ UNCHANGED <<sessions, server_capabilities, server_definitions,
                   is_initialized, lock_owner, lock_waiters, cpc,
                   tasks_to_cancel, last_init>>
    /\ UNCHANGED other_vars

\* ----------------------------------------------------------- specification
Next ==
    \/ \E c \in Callers : Initialize(c)
    \/ \E c \in Callers : WaitForLock(c, "init_wait")
    \/ \E c \in Callers : WaitForLock(c, "close_wait")
    \/ \E c \in Callers : InitializeAfterWait(c)
    \/ \E c \in Callers : Close(c)
    \/ \E c \in Callers : CloseAfterWait(c)
    \/ \E c \in Callers : CloseGathered(c)
    \/ \E c \in Callers : CloseReturn(c)
    \/ \E t \in TaskIds : LoopHead(t)
    \/ \E t \in TaskIds : Connect(t)
    \/ \E t \in TaskIds : SessionEnter(t)
    \/ \E t \in TaskIds : Handshake(t)
    \/ \E t \in TaskIds : Monitor(t)
    \/ \E t \in TaskIds : TransportFailure(t)
    \/ \E t \in TaskIds : HttpStubWake(t)
    \/ \E t \in TaskIds : CleanupDone(t)
    \/ \E t \in TaskIds : BackoffDone(t)
    \/ \E t \in TaskIds : Cancelled(t)
    \/ \E t \in TaskIds : DoneCallback(t)

Spec == Init /\ [][Next]_vars

\* The event loop runs every coroutine whose await has completed: a task's
\* next step, a done callback, and a caller's step after the lock, the gather
\* or the final sleep.  New calls of the lifecycle operations are not forced.
TaskStep(t) ==
    \/ LoopHead(t) \/ Connect(t) \/ SessionEnter(t) \/ Handshake(t)
    \/ Monitor(t) \/ HttpStubWake(t) \/ CleanupDone(t) \/ BackoffDone(t)
    \/ Cancelled(t) \/ DoneCallback(t)

CallerStep(c) ==
    \/ InitializeAfterWait(c) \/ CloseAfterWait(c)
    \/ CloseGathered(c) \/ CloseReturn(c)

FairSpec ==
    /\ Spec
    /\ \A t \in TaskIds : WF_vars(TaskStep(t))
    /\ \A c \in Callers : WF_vars(CallerStep(c))


\* ------------------------------------------------------ get_available_tools
\* What session.list_tools() of a provider answers, and the entries
\* _mcp_tool_to_canonical makes of it for the aggregate.
list_tools(n) == IF n = "p1" THEN {"t1", "t2"} ELSE {"t1"}
canonical_tools(n) == {[server |-> n, tool |-> t] : t \in list_tools(n)}

\* The ClientSession held by task sess can answer a request: it is stored, its
\* process is alive and its exit stack is not being closed.
session_live(sess) ==
    tasks[sess].pc = "connected" /\ tasks[sess].transport_ok

\* Mutant: get_available_tools does not look at _is_initialized.
ListTools_unchecked(k) ==
    /\ list_calls[k].pc = "idle"
    /\ IF DOMAIN sessions = {}
       THEN list_calls' = [list_calls EXCEPT ![k].pc = "returned"]
       ELSE list_calls' = [list_calls EXCEPT
                ![k].pc = "gather",
                ![k].snap = sessions,
                ![k].fetch = [n \in DOMAIN sessions |-> "todo"]]
    /\ UNCHANGED <<lifecycle_vars, exec_calls, pure_vars, handler_vars>>

\* get_available_tools up to its await of the gather, or to its return when the
\* manager is not initialized or no session is stored.
ListTools(k) ==
    /\ list_calls[k].pc = "idle"
    /\ IF ~is_initialized \/ DOMAIN sessions = {}
       THEN list_calls' = [list_calls EXCEPT ![k].pc = "returned"]
       ELSE list_calls' = [list_calls EXCEPT
                ![k].pc = "gather",
                ![k].snap = sessions,
                ![k].fetch = [n \in DOMAIN sessions |-> "todo"]]
    /\ UNCHANGED <<lifecycle_vars, exec_calls, pure_vars, handler_vars>>

\* fetch_and_convert_tools(name, session) starts: the stored capabilities are
\* looked up; without them ("dropped") or without the tools capability the
\* provider is skipped, else session.list_tools() is awaited.
FetchStart(k, n) ==
    /\ list_calls[k].pc = "gather"
    /\ n \in DOMAIN list_calls[k].fetch
    /\ list_calls[k].fetch[n] = "todo"
    /\ list_calls' = [list_calls EXCEPT ![k].fetch[n] =
            IF n \notin DOMAIN server_capabilities THEN "dropped"
            ELSE IF server_capabilities[n] = "tools" THEN "pending"
            ELSE "no_capability"]
    /\ UNCHANGED <<lifecycle_vars, exec_calls, pure_vars, handler_vars>>

\* Mutant: the exception of a failed listing is not caught; it leaves the
\* gather and get_available_tools.
fetch_failed_propagates(call, n) ==
    [call EXCEPT !.fetch[n] = "failed", !.pc = "raised"]

\* except Exception: the failure is logged and the provider adds nothing
fetch_failed(call, n) == [call EXCEPT !.fetch[n] = "failed"]

\* await session.list_tools() returns and the tools are converted and
\* appended, or it raises; a session that is not live can only raise.
FetchReturn(k, n) ==
    /\ list_calls[k].pc = "gather"
    /\ n \in DOMAIN list_calls[k].fetch
    /\ list_calls[k].fetch[n] = "pending"
    /\ \/ /\ session_live(list_calls[k].snap[n])
          /\ list_calls' = [list_calls EXCEPT
                ![k].fetch[n] = "listed",
                ![k].all_canonical_tools = @ \cup canonical_tools(n)]
       \/ list_calls' = [list_calls EXCEPT
                ![k] = fetch_failed(list_calls[k], n)]
    /\ UNCHANGED <<lifecycle_vars, exec_calls, pure_vars, handler_vars>>

\* await asyncio.gather(*tasks) returns: every fetch has ended.  The list is
\* returned, the locals of the call are gone.
ListReturn(k) ==
    /\ list_calls[k].pc = "gather"
    /\ \A n \in DOMAIN list_calls[k].fetch :
          list_calls[k].fetch[n] \notin {"todo", "pending"}
    /\ list_calls' = [list_calls EXCEPT
            ![k] = [NoListCall EXCEPT
                      !.pc = "returned",
                      !.all_canonical_tools =
                          list_calls[k].all_canonical_tools]]
    /\ UNCHANGED <<lifecycle_vars, exec_calls, pure_vars, handler_vars>>

\* --------------------------------------------------------- execute_mcp_tool
\* The names execute_mcp_tool is called with, by what the search over
\* _server_definitions makes of them: the provider key found (None when no key
\* matches) and the tool name left after it.
ServerKeys == Providers \cup {None}
LocalToolNames == {"t1", ""}

raise(call, class, why) ==
    [call EXCEPT !.pc = "raised", !.raised = class, !.cause = why]

\* Mutant: a missing session is not checked before the call.
execute_mcp_tool_unchecked(call, key, tool) ==
    IF ~is_initialized
    THEN raise(call, "RuntimeError", "not_initialized")
    ELSE IF key = None \/ key \notin DOMAIN server_definitions \/ tool = ""
    THEN raise(call, "ValueError", "no_server")
    ELSE [call EXCEPT !.pc = "call_tool", !.server_name = key,
                      !.session = IF key \in DOMAIN sessions
                                  THEN sessions[key] ELSE 0,
                      !.invoked = TRUE]

\* execute_mcp_tool up to its await of session.call_tool, or to the exception
\* it raises before.
execute_mcp_tool(call, key, tool) ==
    IF ~is_initialized
    THEN raise(call, "RuntimeError", "not_initialized")
    ELSE IF key = None \/ key \notin DOMAIN server_definitions \/ tool = ""
    THEN raise(call, "ValueError", "no_server")
    ELSE IF key \notin DOMAIN sessions
    THEN raise([call EXCEPT !.server_name = key],
               "ConnectionError", "not_connected")
    ELSE [call EXCEPT !.pc = "call_tool", !.server_name = key,
                      !.session = sessions[key], !.invoked = TRUE]

Execute(k) ==
    /\ exec_calls[k].pc = "idle"
    /\ \E key \in ServerKeys, tool \in LocalToolNames :
          exec_calls' = [exec_calls EXCEPT
                ![k] = execute_mcp_tool(exec_calls[k], key, tool)]
    /\ UNCHANGED <<lifecycle_vars, list_calls, pure_vars, handler_vars>>

\* Mutant: the provider's error is raised as a ConnectionError.
tool_error_class_connection == "ConnectionError"

\* raise RuntimeError(f"Tool execution error in ...") for call_result.isError
tool_error_class == "RuntimeError"

\* What await session.call_tool(...) can end with: a result (content, an
\* is-error result or None) or an exception (a timeout, a ConnectionError or
\* another exception of the transport).
CallToolEnds ==
    {"content", "isError", "None", "asyncio.TimeoutError", "ConnectionError",
     "Exception"}

\* Mutant: a call that ends with an exception of the transport drops the
\* provider's session from the session map.
ExecuteReturn_drops_session(k) ==
    LET call == exec_calls[k] IN
    /\ call.pc = "call_tool"
    /\ exec_calls' = [exec_calls EXCEPT
            ![k] = raise(call, "ConnectionError", "transport")]
    /\ sessions' = MapDel(sessions, call.server_name)
    /\ UNCHANGED <<server_capabilities, server_definitions, connection_tasks,
                   is_initialized, lock_owner, lock_waiters, tasks, cpc,
                   tasks_to_cancel, last_init>>
    /\ UNCHANGED <<list_calls, pure_vars, handler_vars>>

\* await session.call_tool(...) ends: the content is returned, or the result
\* is turned into an exception, or the exception is logged and raised again.
\* A session that is not live gives no result.
ExecuteReturn(k) ==
    LET call == exec_calls[k] IN
    /\ call.pc = "call_tool"
    /\ \E e \in CallToolEnds :
          /\ e \in {"content", "isError", "None"} =>
                call.session # 0 /\ session_live(call.session)
          /\ exec_calls' = [exec_calls EXCEPT ![k] =
                CASE e = "content" -> [call EXCEPT !.pc = "returned"]
                  [] e = "isError" -> raise(call, tool_error_class, "isError")
                  [] e = "None" -> raise(call, "RuntimeError", "none_result")
                  [] e = "asyncio.TimeoutError" ->
                        raise(call, "TimeoutError", "timeout")
                  [] e = "ConnectionError" ->
                        raise(call, "ConnectionError", "transport")
                  [] e = "Exception" -> raise(call, "Exception", "transport")]
    /\ UNCHANGED <<lifecycle_vars, list_calls, pure_vars, handler_vars>>

\* ------------------------------------------ the manager and its tool calls
\* One owner of the manager runs its lifecycle (the lifespan of the serving
\* application) while requests list and execute tools.
Owner == "c1"
\* The owner initializes the manager once, at startup.
Startup == last_init = "none" /\ Initialize(Owner)
\* Backoff waits of one task that are followed to their end.
ToolsMaxAttempt == 1
BackoffEnds(t) == tasks[t].attempt < ToolsMaxAttempt /\ BackoffDone(t)

ManagerNext ==
    \/ Startup
    \/ Close(Owner)
    \/ CloseGathered(Owner)
    \/ CloseReturn(Owner)
    \/ \E t \in TaskIds : LoopHead(t)
    \/ \E t \in TaskIds : Connect(t)
    \/ \E t \in TaskIds : SessionEnter(t)
    \/ \E t \in TaskIds : Handshake(t)
    \/ \E t \in TaskIds : Monitor(t)
    \/ \E t \in TaskIds : TransportFailure(t)
    \/ \E t \in TaskIds : HttpStubWake(t)
    \/ \E t \in TaskIds : CleanupDone(t)
    \/ \E t \in TaskIds : BackoffEnds(t)
    \/ \E t \in TaskIds : Cancelled(t)
    \/ \E t \in TaskIds : DoneCallback(t)

\* The manager while requests list its tools.
ToolsNext ==
    \/ ManagerNext
    \/ \E k \in ListCallIds : ListTools(k)
    \/ \E k \in ListCallIds, n \in Providers : FetchStart(k, n)
    \/ \E k \in ListCallIds, n \in Providers : FetchReturn(k, n)
    \/ \E k \in ListCallIds : ListReturn(k)

ToolsSpec == Init /\ [][ToolsNext]_vars

\* The manager while a request executes a tool.
ExecNext ==
    \/ ManagerNext
    \/ \E k \in ExecCallIds : Execute(k)
    \/ \E k \in ExecCallIds : ExecuteReturn(k)

ExecSpec == Init /\ [][ExecNext]_vars

\* The manager while one request lists its tools and another executes a tool.
ListStep(k) ==
    \/ ListTools(k)
    \/ \E n \in Providers : FetchStart(k, n)
    \/ \E n \in Providers : FetchReturn(k, n)
    \/ ListReturn(k)
ExecuteStep(k) == Execute(k) \/ ExecuteReturn(k)
ClientNext ==
    \/ ManagerNext
    \/ ListStep("l1")
    \/ \E k \in ExecCallIds : ExecuteStep(k)

ClientSpec == Init /\ [][ClientNext]_vars

\* The event loop runs every coroutine whose await has completed; the answer
\* of a provider to a pending request is not forced.
ExecFairSpec ==
    /\ ExecSpec
    /\ \A t \in TaskIds :
          WF_vars(LoopHead(t) \/ Connect(t) \/ SessionEnter(t) \/ Handshake(t)
                  \/ Monitor(t) \/ HttpStubWake(t) \/ CleanupDone(t)
                  \/ BackoffEnds(t) \/ Cancelled(t) \/ DoneCallback(t))
    /\ WF_vars(CloseGathered(Owner) \/ CloseReturn(Owner))

\* ------------------------------------------------------------- tool names
\* Names are sequences of characters.  Provider and tool names are written
\* with a letter and the hyphen.
NameChars == {"a", "-"}
MCP_PREFIX == <<"m", "c", "p", "-">>
Hyphen == <<"-">>

RECURSIVE StringsOfLen(_)
StringsOfLen(n) ==
    IF n = 0 THEN {<<>>}
    ELSE {Append(x, c) : x \in StringsOfLen(n - 1), c \in NameChars}
StringsUpTo(n) == UNION {StringsOfLen(i) : i \in 0..n}

\* The keys of a configuration are not empty; a tool that a provider lists
\* has a name.
ProviderNames == StringsUpTo(MaxNameLen) \ {<<>>}
ToolNames == StringsUpTo(MaxNameLen) \ {<<>>}

\* _server_definitions.keys() in the dict's order: one or two distinct names
ServerKeyOrders ==
    {<<a>> : a \in ProviderNames} \cup
    {ks \in ProviderNames \X ProviderNames : ks[1] # ks[2]}

\* Names in which "mcp-" comes after one or after four other characters and
\* up to two more.
LateMarkerNames ==
    {pre \o mid \o MCP_PREFIX \o suf :
        pre \in {<<"a">>, <<"a", "a", "a", "a">>},
        mid \in StringsUpTo(2), suf \in StringsUpTo(1)}

\* The names execute_mcp_tool is given: "mcp-" and a suffix, the suffix
\* alone, or a name with "mcp-" further in.
GivenNames ==
    {MCP_PREFIX \o x : x \in StringsUpTo(MaxSuffixLen)} \cup
    StringsUpTo(MaxSuffixLen) \cup LateMarkerNames

\* str.startswith, the "in" of two strings and the slice s[k:]
startswith(x, pre) ==
    Len(pre) <= Len(x) /\ SubSeq(x, 1, Len(pre)) = pre
contains(x, sub) ==
    \E i \in 0..(Len(x) - Len(sub)) : SubSeq(x, i + 1, i + Len(sub)) = sub
slice_from(x, k) == SubSeq(x, k + 1, Len(x))

\* "name": f"mcp-{server_name}-{mcp_tool.name}"
mcp_tool_to_canonical(server_name, tool) ==
    MCP_PREFIX \o server_name \o Hyphen \o tool

\* found_server_key is None, or a key
NotFound == [found |-> FALSE, key |-> <<>>]
Found(k) == [found |-> TRUE, key |-> k]

\* Mutant: the first key that matches is kept.
keep_longest_first_match(found_server_key, server_key) ==
    IF ~found_server_key.found THEN Found(server_key) ELSE found_server_key

\* if found_server_key is None or len(server_key) > len(found_server_key)
keep_longest(found_server_key, server_key) ==
    IF ~found_server_key.found \/ Len(server_key) > Len(found_server_key.key)
    THEN Found(server_key)
    ELSE found_server_key

\* for server_key in self._server_definitions.keys(): from the i-th key on
RECURSIVE find_server_key(_, _, _, _)
find_server_key(keys, i, name_suffix, found_server_key) ==
    IF i > Len(keys) THEN found_server_key
    ELSE find_server_key(keys, i + 1, name_suffix,
            IF startswith(name_suffix, keys[i] \o Hyphen)
            THEN keep_longest(found_server_key, keys[i])
            ELSE found_server_key)

ValueError == [raised |-> "ValueError", server_name |-> <<>>,
               original_tool_name |-> <<>>]

\* The name resolution of execute_mcp_tool: the ValueError it raises, or the
\* server name and the tool name it goes on with.
resolve_tool_name(keys, full_tool_name) ==
    IF ~contains(full_tool_name, MCP_PREFIX) THEN ValueError
    ELSE LET name_suffix == slice_from(full_tool_name, 4)
             f == find_server_key(keys, 1, name_suffix, NotFound)
         IN IF ~f.found \/ f.key = <<>> THEN ValueError
            ELSE IF slice_from(name_suffix, Len(f.key) + 1) = <<>>
            THEN ValueError
            ELSE [raised |-> "no",
                  server_name |-> f.key,
                  original_tool_name |->
                      slice_from(name_suffix, Len(f.key) + 1)]

\* The names of the builtin tools: the functions of function_calling/tools
BuiltinToolNames ==
    {<<"w", "e", "b", "_", "s", "e", "a", "r", "c", "h">>,
     <<"w", "e", "b", "_", "b", "r", "o", "w", "s", "i", "n", "g">>,
     <<"r", "e", "q", "u", "e", "s", "t", "_", "c", "l", "a", "r", "i", "f",
       "i", "c", "a", "t", "i", "o", "n">>}

\* A configuration of providers is chosen; then either a provider's tool is
\* given its name by get_available_tools and the name is resolved by
\* execute_mcp_tool, or a name from elsewhere is resolved.
NameInit ==
    /\ ClientIdle
    /\ HandlerIdle
    /\ definition = NoDefinition
    /\ resolution \in {[phase |-> "configured", keys |-> ks] :
                          ks \in ServerKeyOrders}
    /\ sessions = EmptyMap
    /\ server_capabilities = EmptyMap
    /\ server_definitions = EmptyMap
    /\ connection_tasks = EmptyMap
    /\ is_initialized = FALSE
    /\ lock_owner = NoCaller
    /\ lock_waiters = <<>>
    /\ tasks = [t \in TaskIds |-> Unborn]
    /\ cpc = [c \in Callers |-> "idle"]
    /\ tasks_to_cancel = [c \in Callers |-> {}]
    /\ last_init = "none"

EmitName ==
    /\ resolution.phase = "configured"
    /\ \E i \in 1..Len(resolution.keys), tool \in ToolNames :
          resolution' =
              [phase |-> "emitted", keys |-> resolution.keys,
               server_name |-> resolution.keys[i], tool |-> tool,
               full_tool_name |->
                   mcp_tool_to_canonical(resolution.keys[i], tool)]
    /\ UNCHANGED <<lifecycle_vars, client_vars, handler_vars, definition>>

ResolveEmitted ==
    /\ resolution.phase = "emitted"
    /\ resolution' =
          [phase |-> "round_trip", keys |-> resolution.keys,
           server_name |-> resolution.server_name, tool |-> resolution.tool,
           full_tool_name |-> resolution.full_tool_name,
           result |-> resolve_tool_name(resolution.keys,
                                        resolution.full_tool_name)]
    /\ UNCHANGED <<lifecycle_vars, client_vars, handler_vars, definition>>

ResolveGiven ==
    /\ resolution.phase = "configured"
    /\ \E full_tool_name \in GivenNames :
          resolution' =
              [phase |-> "resolved", keys |-> resolution.keys,
               full_tool_name |-> full_tool_name,
               result |-> resolve_tool_name(resolution.keys, full_tool_name)]
    /\ UNCHANGED <<lifecycle_vars, client_vars, handler_vars, definition>>

NameNext == EmitName \/ ResolveEmitted \/ ResolveGiven

NameSpec == NameInit /\ [][NameNext]_vars

\* ---------------------------------------------- the tools of a chat request
\* handle_chat_request (backend/app/handlers/chat_handler.py): the builtin and
\* the remote tools are gathered, the disabled ones are removed, and the vendor
\* handler renders the enabled ones for the vendor.  A tool is its name.
BuiltinNames == <<"request_clarification", "web_browsing", "web_search">>
RemoteNames == <<"mcp-p1-t1", "mcp-p2-t1">>
DisabledNames ==
    {BuiltinNames[1], BuiltinNames[3], RemoteNames[1], "mcp-p3-t1"}

SeqRange(q) == {q[i] : i \in 1..Len(q)}
\* The sublists of a list, in the list's order.
Sublists(q) ==
    {SelectSeq(q, LAMBDA x : x \in keep) : keep \in SUBSET SeqRange(q)}

\* SettingsService.get_disabled_mcp_tools: the stored list, or an empty list
\* when there are no settings or the stored value is empty.
NoSettings == {None}
get_disabled_mcp_tools(settings) ==
    IF settings = NoSettings \/ settings = {} THEN {} ELSE settings

\* An optional list that is None.
NoneList == <<None>>

\* The list comprehension of step 4.
filter_disabled_unfiltered(all_canonical_tools, disabled_tools_set) ==
    all_canonical_tools
filter_disabled(all_canonical_tools, disabled_tools_set) ==
    SelectSeq(all_canonical_tools, LAMBDA tool : tool \notin disabled_tools_set)

\* get_tool_definitions (backend/app/function_calling/definitions.py): its
\* parameters, and its result for the keyword arguments of a call.  A keyword
\* that is no parameter makes the call raise TypeError.
ToolDefinitionParams == {"without_human_fallback", "vendor", "mcp_tools"}
get_tool_definitions(builtin, kwargs) ==
    IF ~(DOMAIN kwargs \subseteq ToolDefinitionParams)
    THEN [raised |-> "TypeError"]
    ELSE [raised |-> None,
          tools |-> builtin \o
                    (IF "mcp_tools" \in DOMAIN kwargs
                     THEN kwargs.mcp_tools ELSE <<>>)]

\* A chat request arrives: what the tools directory, the providers and the
\* settings hold when it does.
RegistryInit ==
    /\ ClientIdle
    /\ resolution = NoResolution
    /\ definition = NoDefinition
    /\ stream = NoStream
    /\ gen = NoGen
    /\ emitted = <<>>
    /\ request \in
          {[pc |-> "received", toolUse |-> u, builtin |-> b, remote |-> r,
            settings |-> d] :
              u \in BOOLEAN, b \in Sublists(BuiltinNames),
              r \in Sublists(RemoteNames),
              d \in (SUBSET DisabledNames) \cup {NoSettings}}
    /\ sessions = EmptyMap
    /\ server_capabilities = EmptyMap
    /\ server_definitions = EmptyMap
    /\ connection_tasks = EmptyMap
    /\ is_initialized = FALSE
    /\ lock_owner = NoCaller
    /\ lock_waiters = <<>>
    /\ tasks = [t \in TaskIds |-> Unborn]
    /\ cpc = [c \in Callers |-> "idle"]
    /\ tasks_to_cancel = [c \in Callers |-> {}]
    /\ last_init = "none"

\* handle_chat_request without the inner try: an exception of fetching or
\* filtering reaches the outer handler and ends the request with status 500.
GatherTools_failure_propagates ==
    /\ request.pc = "received"
    /\ \E raises \in BOOLEAN :
          LET all_canonical_tools == request.builtin \o request.remote
              disabled_tools_set == get_disabled_mcp_tools(request.settings)
              filtered_canonical_tools ==
                  IF ~request.toolUse \/ raises THEN NoneList
                  ELSE filter_disabled(all_canonical_tools, disabled_tools_set)
              gathered ==
                  [pc |-> "gathered", toolUse |-> request.toolUse,
                   builtin |-> request.builtin, remote |-> request.remote,
                   settings |-> request.settings,
                   gathered |-> request.toolUse /\ ~raises,
                   enabled_tools |-> filtered_canonical_tools,
                   tool_use_instruction |->
                       /\ filtered_canonical_tools # NoneList
                       /\ filtered_canonical_tools # <<>>]
          IN  /\ raises => request.toolUse
              /\ request' =
                    IF raises
                    THEN [pc |-> "failed", toolUse |-> request.toolUse,
                          builtin |-> request.builtin,
                          remote |-> request.remote,
                          settings |-> request.settings,
                          gathered |-> FALSE,
                          enabled_tools |-> NoneList,
                          tool_use_instruction |-> FALSE,
                          handed |-> NoneList, status |-> 500,
                          tools |-> NoneList]
                    ELSE gathered
    /\ UNCHANGED <<lifecycle_vars, client_vars, pure_vars, loop_vars>>

\* handle_chat_request up to the choice of the vendor handler.  Fetching or
\* filtering may raise; the request then goes on without tools.
GatherTools ==
    /\ request.pc = "received"
    /\ \E raises \in BOOLEAN :
          LET all_canonical_tools == request.builtin \o request.remote
              disabled_tools_set == get_disabled_mcp_tools(request.settings)
              filtered_canonical_tools ==
                  IF ~request.toolUse \/ raises THEN NoneList
                  ELSE filter_disabled(all_canonical_tools, disabled_tools_set)
          IN  /\ raises => request.toolUse
              /\ request' =
                    [pc |-> "gathered", toolUse |-> request.toolUse,
                     builtin |-> request.builtin, remote |-> request.remote,
                     settings |-> request.settings,
                     gathered |-> request.toolUse /\ ~raises,
                     enabled_tools |-> filtered_canonical_tools,
                     tool_use_instruction |->
                         /\ filtered_canonical_tools # NoneList
                         /\ filtered_canonical_tools # <<>>]
    /\ UNCHANGED <<lifecycle_vars, client_vars, pure_vars, loop_vars>>

\* The vendor handler is called with the enabled tools and renders them for
\* the first request to the vendor; an exception ends the chat request with
\* status 500.
CallHandler ==
    /\ request.pc = "gathered"
    /\ LET enabled_tools == request.enabled_tools
           renders == /\ request.toolUse
                      /\ enabled_tools # NoneList
                      /\ enabled_tools # <<>>
           rendered == get_tool_definitions(request.builtin,
                           [canonical_tools |-> enabled_tools])
       IN  request' =
             [pc |-> IF renders /\ rendered.raised # None
                     THEN "failed" ELSE "handled",
              toolUse |-> request.toolUse,
              builtin |-> request.builtin, remote |-> request.remote,
              settings |-> request.settings,
              gathered |-> request.gathered,
              enabled_tools |-> enabled_tools,
              tool_use_instruction |-> request.tool_use_instruction,
              handed |-> enabled_tools,
              status |-> IF renders /\ rendered.raised # None
                         THEN 500 ELSE 200,
              tools |-> IF renders /\ rendered.raised = None
                        THEN rendered.tools ELSE NoneList]
    /\ UNCHANGED <<lifecycle_vars, client_vars, pure_vars, loop_vars>>

RegistryNext == GatherTools \/ CallHandler

RegistrySpec == RegistryInit /\ [][RegistryNext]_vars

\* ------------------------------------------------------------ handle_tool_call
\* handle_tool_call (backend/app/function_calling/handlers.py) runs one tool
\* and yields status updates; the last "tool_execution_complete" carries the
\* result.  A run is the list of the types of the statuses it yields, the
\* kinds of the parts of its result, and whether it ends by raising.  A part
\* of a result is an image or a text: what the tool returned ("text"), the
\* message of the exception a provider's tool raised ("error_text"), or the
\* sentence that the execution completed but no result was returned
\* ("placeholder").
TextParts == {"text", "error_text", "placeholder"}
WebSearchName == <<"w", "e", "b", "_", "s", "e", "a", "r", "c", "h">>
McpToolName == mcp_tool_to_canonical(<<"a">>, <<"a">>)
UnknownToolName == <<"a">>
ToolCallNames == {WebSearchName, McpToolName, UnknownToolName}

\* tool_functions_map: the functions found in function_calling/tools
tool_functions_map == BuiltinToolNames

\* is_mcp_tool = "mcp-" in tool_name
is_mcp_tool(tool_name) == contains(tool_name, MCP_PREFIX)

ToolRun(statuses, result, raised) ==
    [statuses |-> statuses, result |-> result, raised |-> raised]

\* What execute_mcp_tool may return: the content parts of the tool's answer.
McpResults == {<<>>, <<"text">>, <<"text", "image">>}

\* "if not result_to_return": a placeholder text becomes the result.
or_placeholder(result_to_return) ==
    IF result_to_return = <<>> THEN <<"placeholder">> ELSE result_to_return

\* The runs of a provider's tool: the call returns parts, or raises and the
\* error text becomes the result.
mcp_tool_runs ==
    {ToolRun(<<"tool_execution", "tool_execution_complete">>,
             or_placeholder(results), FALSE) : results \in McpResults}
    \cup
    {ToolRun(<<"tool_execution", "error", "tool_execution_complete">>,
             <<"error_text">>, FALSE)}

\* The runs of a local tool function.  When it returns a value json.dumps
\* accepts, the result is yielded inside the try and again at the end.  When
\* it raises, an error status is yielded and the placeholder is the result.
\* When it returns a value json.dumps rejects (web_search returns a list of
\* SearchResult objects from its own except branch), the dumps inside the try
\* raises, an error status is yielded, the dumps at the end raises again and
\* the outer handler yields an error status and re-raises.
local_tool_runs ==
    {ToolRun(<<"tool_execution", "tool_execution_complete",
               "tool_execution_complete">>, <<"text">>, FALSE),
     ToolRun(<<"tool_execution", "error", "tool_execution_complete">>,
             or_placeholder(<<>>), FALSE),
     ToolRun(<<"tool_execution", "error", "error">>, <<>>, TRUE)}

\* A name that is no local function: an error status, then the placeholder.
unknown_tool_runs ==
    {ToolRun(<<"error", "tool_execution_complete">>,
             or_placeholder(<<>>), FALSE)}

handle_tool_call(tool_name) ==
    IF is_mcp_tool(tool_name) THEN mcp_tool_runs
    ELSE IF tool_name \in tool_functions_map THEN local_tool_runs
    ELSE unknown_tool_runs

\* The generators' loop over the statuses: "tool_execution_complete" is kept
\* as tool_result, every other status is forwarded to the caller.
forward_all(statuses) == statuses
forwarded(statuses) ==
    SelectSeq(statuses, LAMBDA type : type # "tool_execution_complete")
has_tool_result(run) ==
    \E i \in 1..Len(run.statuses) :
        run.statuses[i] = "tool_execution_complete"

\* The events the caller receives for the statuses forwarded to it.  A status
\* of type "error" is {"type": "error", "message": ...}; the event that ends
\* a generator's output is {"error": ...}.
status_event(type) == IF type = "error" THEN "tool_error" ELSE type
status_events(statuses) ==
    [i \in 1..Len(statuses) |-> status_event(statuses[i])]

\* ------------------------------------------------------- the vendor's stream
\* What a vendor sends while a generator of
\* backend/app/message_utils/response_generator.py iterates its response.
\* Tool arguments are strings of braces; a string is a JSON object when it
\* opens with a brace that its last brace closes.
endswith(x, suf) ==
    Len(suf) <= Len(x) /\ SubSeq(x, Len(x) - Len(suf) + 1, Len(x)) = suf
brace_depth(x, i) ==
    Cardinality({j \in 1..i : x[j] = "{"}) -
    Cardinality({j \in 1..i : x[j] = "}"})
\* json.loads succeeds
\* json.loads ignores white space after the value.
Whitespace == " "
without_trailing_space(x) ==
    SubSeq(x, 1, Cardinality({i \in 1..Len(x) :
                                 \E j \in i..Len(x) : x[j] # Whitespace}))
valid_json(x) ==
    LET value == without_trailing_space(x)
    IN  /\ value # <<>>
        /\ value[1] = "{"
        /\ brace_depth(value, Len(value)) = 0
        /\ \A i \in 1..(Len(value) - 1) : brace_depth(value, i) >= 1

\* A chunk of an OpenAI-style stream: delta.content, one entry of
\* delta.tool_calls, finish_reason and usage.  A chunk without choices is the
\* one that carries usage alone.
NoToolCall == [index |-> -1, name |-> <<>>, arguments |-> <<>>]
ToolCallDelta(index, name, arguments) ==
    [index |-> index, name |-> name, arguments |-> arguments]
Chunk(content, tool_call, finish_reason, usage) ==
    [choices |-> TRUE, content |-> content, tool_call |-> tool_call,
     finish_reason |-> finish_reason, usage |-> usage]
TextChunk == Chunk(TRUE, NoToolCall, None, FALSE)
ToolChunk(index, name, arguments) ==
    Chunk(FALSE, ToolCallDelta(index, name, arguments), None, FALSE)
FinishChunk(finish_reason, usage) ==
    Chunk(FALSE, NoToolCall, finish_reason, usage)
UsageChunk ==
    [choices |-> FALSE, content |-> FALSE, tool_call |-> NoToolCall,
     finish_reason |-> None, usage |-> TRUE]

\* An event of an Anthropic stream.
MessageStart == [type |-> "message_start"]
TextBlockStart(text) ==
    [type |-> "content_block_start", block |-> "text", text |-> text]
ToolUseBlockStart(name) ==
    [type |-> "content_block_start", block |-> "tool_use", name |-> name]
TextDelta == [type |-> "content_block_delta", delta |-> "text_delta"]
InputJsonDelta(partial_json) ==
    [type |-> "content_block_delta", delta |-> "input_json_delta",
     partial_json |-> partial_json]
ContentBlockStop == [type |-> "content_block_stop"]
MessageDelta(stop_reason) ==
    [type |-> "message_delta", stop_reason |-> stop_reason]
MessageStop == [type |-> "message_stop"]
Ping == [type |-> "ping"]
ErrorEvent == [type |-> "error"]

Vendors == {"openai", "anthropic"}
ToolCallIndexes == {0}
FirstFragments == {<<>>, <<"{", "}">>}
Fragments == {<<"{">>, <<"}">>}
FinishReasons == {"stop", "tool_calls", "length"}
StopReasons == {"end_turn", "tool_use", "max_tokens"}

\* What an unscripted OpenAI-style stream may send next.  The first delta of
\* a tool call names the tool, the later ones carry arguments only; after a
\* finish reason only the usage chunk follows.
openai_offers(s, g) ==
    IF s.position = "finished" THEN {UsageChunk}
    ELSE {TextChunk}
         \cup {FinishChunk(r, u) : r \in FinishReasons, u \in BOOLEAN}
         \cup (IF g.tool_calls_count >= MaxRounds THEN {}
               ELSE {ToolChunk(i, n, a) :
                        i \in ToolCallIndexes \ DOMAIN g.tool_calls_buffer,
                        n \in ToolCallNames, a \in FirstFragments}
                    \cup
                    {ToolChunk(i, <<>>, a) :
                        i \in ToolCallIndexes \cap DOMAIN g.tool_calls_buffer,
                        a \in Fragments})

\* What an unscripted Anthropic stream may send next: message_start, content
\* blocks each opened, filled and closed, message_delta, message_stop.
anthropic_offers(s, g) ==
    CASE s.position = "start" -> {MessageStart, Ping}
      [] s.position = "blocks" ->
            {TextBlockStart(FALSE), ErrorEvent}
            \cup {MessageDelta(r) : r \in StopReasons}
            \cup (IF g.tool_calls_count >= MaxRounds THEN {}
                  ELSE {ToolUseBlockStart(n) : n \in ToolCallNames})
      [] s.position = "in_text" -> {TextDelta, ContentBlockStop}
      [] s.position = "in_tool" ->
            {InputJsonDelta(a) : a \in Fragments} \cup {ContentBlockStop}
      [] s.position = "delta_done" -> {MessageStop}
      [] OTHER -> {}

Scripted(s) == s.mode = "script"

\* The events the generator's "async for" may receive next, and whether the
\* response may end here.
Offered(s, g) ==
    IF Scripted(s)
    THEN IF s.responses # <<>> /\ Head(s.responses) # <<>>
         THEN {Head(Head(s.responses))} ELSE {}
    ELSE IF s.consumed >= MaxChunks THEN {}
    ELSE IF s.vendor = "openai" THEN openai_offers(s, g)
    ELSE anthropic_offers(s, g)
AtEnd(s) ==
    IF Scripted(s) THEN s.responses = <<>> \/ Head(s.responses) = <<>>
    ELSE s.vendor = "openai" \/ s.position = "stopped"

next_position(s, event) ==
    IF s.vendor = "openai"
    THEN IF event.choices /\ event.finish_reason # None
         THEN "finished" ELSE s.position
    ELSE CASE event.type = "message_start" -> "blocks"
           [] event.type = "ping" -> "start"
           [] event.type = "content_block_start" ->
                 IF event.block = "text" THEN "in_text" ELSE "in_tool"
           [] event.type = "content_block_stop" -> "blocks"
           [] event.type = "message_delta" -> "delta_done"
           [] event.type = "message_stop" -> "stopped"
           [] OTHER -> s.position

start_position(vendor) == IF vendor = "openai" THEN "open" ELSE "start"

\* The stream after the generator received event; resubmitted: the generator
\* asked the vendor for a new response and iterates that one from now on.
consume(s, event, resubmitted) ==
    [vendor |-> s.vendor, mode |-> s.mode,
     responses |->
         IF ~Scripted(s) THEN s.responses
         ELSE IF resubmitted THEN Tail(s.responses)
         ELSE <<Tail(Head(s.responses))>> \o Tail(s.responses),
     position |->
         IF Scripted(s) THEN s.position
         ELSE IF resubmitted THEN start_position(s.vendor)
         ELSE next_position(s, event),
     consumed |-> IF Scripted(s) THEN s.consumed ELSE s.consumed + 1]

\* ------------------------------------------------------ the stream generators
\* openai_stream_generator and anthropic_stream_generator.  gen holds the
\* generator's locals; messages holds what it appended to the messages of the
\* running request, tools whether the request carries a "tools" entry.
\* usage tells whether usage statistics were accumulated; issued lists the
\* tool choice of every completion call the generator re-issued.  The handler
\* of an OpenAI-style vendor sets tool_choice "required" next to "tools"; the
\* Anthropic handler sets no tool choice, the Gemini handler sets the mode
\* ANY of the function calling configuration.
GenStart(vendor, multimodal, tools) ==
    [pc |-> "iterating", should_continue |-> FALSE, tool_calls_count |-> 0,
     text_generated |-> FALSE, tool_calls_buffer |-> EmptyMap,
     tool_input_json |-> <<>>, partial_text |-> FALSE,
     current_tool_name |-> <<>>, messages |-> <<>>,
     tools |-> tools,
     tool_choice |-> IF ~tools THEN None
                     ELSE IF vendor = "openai" THEN "required"
                     ELSE IF vendor = "gemini" THEN "ANY"
                     ELSE None,
     multimodal |-> multimodal, enabled_tools |-> RemoteNames,
     usage |-> FALSE, issued |-> <<>>]

\* The generator's locals and the events it yields after one step.
Step(g, events, resubmitted) ==
    [gen |-> g, events |-> events, resubmitted |-> resubmitted]
Opt(cond, events) == IF cond THEN events ELSE <<>>

\* The messages one tool round appends for an OpenAI-style vendor: the
\* assistant's tool call, the tool's result and, for a multimodal model, the
\* image of the result as a user message.
Message(kind, content) == [kind |-> kind, content |-> content]
has_image(result) == \E i \in 1..Len(result) : result[i] = "image"
text_parts(result) == SelectSeq(result, LAMBDA part : part \in TextParts)
\* tool_result_text: the last text part of the result, or a fixed sentence
tool_result_text(result) ==
    IF text_parts(result) = <<>> THEN "no_text"
    ELSE text_parts(result)[Len(text_parts(result))]
openai_tool_messages(g, run) ==
    <<Message("tool_use_message", <<>>),
      Message("tool_result_message", <<tool_result_text(run.result)>>)>>
    \o Opt(has_image(run.result) /\ g.multimodal,
           <<Message("image_message", <<"image">>)>>)

\* The messages one tool round appends for Anthropic: the assistant's
\* tool_use block, after the text streamed so far, and a user message whose
\* tool_result block holds every part of the result.
anthropic_tool_messages(g, run) ==
    <<Message("tool_use_message", Opt(g.partial_text, <<"text">>)),
      Message("tool_result_message", run.result)>>

\* Mutant: the arguments of a delta replace those in the buffer.
buffered_keeps_last_fragment(tool_calls_buffer, chunk) ==
    LET tool_call == chunk.tool_call
        index == tool_call.index
    IN  IF ~(chunk.choices /\ tool_call # NoToolCall) THEN tool_calls_buffer
        ELSE IF index \notin DOMAIN tool_calls_buffer
        THEN MapPut(tool_calls_buffer, index,
                    [name |-> tool_call.name,
                     arguments |-> tool_call.arguments])
        ELSE MapPut(tool_calls_buffer, index,
                    [name |-> tool_calls_buffer[index].name,
                     arguments |-> tool_call.arguments])

\* tool_calls_buffer after the delta of a chunk was stored or appended.
buffered(tool_calls_buffer, chunk) ==
    LET tool_call == chunk.tool_call
        index == tool_call.index
    IN  IF ~(chunk.choices /\ tool_call # NoToolCall) THEN tool_calls_buffer
        ELSE IF index \notin DOMAIN tool_calls_buffer
        THEN MapPut(tool_calls_buffer, index,
                    [name |-> tool_call.name,
                     arguments |-> tool_call.arguments])
        ELSE MapPut(tool_calls_buffer, index,
                    [name |-> tool_calls_buffer[index].name,
                     arguments |-> tool_calls_buffer[index].arguments
                                   \o tool_call.arguments])
\* "If we have complete arguments": the arguments of the delta end with "}".
complete_arguments(chunk) ==
    /\ chunk.choices /\ chunk.tool_call # NoToolCall
    /\ chunk.tool_call.arguments # <<>>
    /\ endswith(chunk.tool_call.arguments, <<"}">>)
\* The string json.loads turns into tool_input, in a list; the empty list
\* when no tool is executed for the chunk.
loaded_arguments(tool_calls_buffer, chunk) ==
    LET arguments ==
            buffered(tool_calls_buffer, chunk)[chunk.tool_call.index].arguments
    IN  IF complete_arguments(chunk) /\ valid_json(arguments)
        THEN <<arguments>> ELSE <<>>
\* One pass of the body of "async for chunk in response" of
\* openai_stream_generator, up to the next chunk or the generator's end.  run
\* is the run of handle_tool_call if a tool is executed, create_raises whether
\* the request for the next response raises.
openai_chunk(g, chunk, run, create_raises) ==
    LET has_content == chunk.choices /\ chunk.content
        has_call == chunk.choices /\ chunk.tool_call # NoToolCall
        tool_call == chunk.tool_call
        index == tool_call.index
        first == index \notin DOMAIN g.tool_calls_buffer
        buffer == buffered(g.tool_calls_buffer, chunk)
        complete == complete_arguments(chunk)
        executes == loaded_arguments(g.tool_calls_buffer, chunk) # <<>>
        submits == executes /\ ~run.raised /\ has_tool_result(run)
        rerenders == submits /\ g.tool_calls_count > 0 /\ g.tools
        rendered == get_tool_definitions(BuiltinNames,
                        [canonical_tools |-> g.enabled_tools])
        created == submits /\ ~(rerenders /\ rendered.raised # None)
        resubmitted == created /\ ~create_raises
        raised == \/ executes /\ run.raised
                  \/ rerenders /\ rendered.raised # None
                  \/ created /\ create_raises
        finish_reason == IF chunk.choices THEN chunk.finish_reason ELSE None
        finished == ~raised /\ finish_reason # None
        should_continue == resubmitted \/ (finished /\ finish_reason = "tool_calls")
        breaks == \/ finished /\ finish_reason \in {"stop", "tool_calls"}
                  \/ should_continue
        returns == ~raised /\ breaks /\ ~should_continue
        tool_choice == IF rerenders /\ rendered.raised = None
                       THEN "auto" ELSE g.tool_choice
    IN  Step([pc |-> IF raised \/ returns THEN "ended" ELSE "iterating",
              should_continue |-> FALSE,
              tool_calls_count |->
                  IF created THEN g.tool_calls_count + 1
                  ELSE g.tool_calls_count,
              text_generated |-> g.text_generated \/ has_content,
              tool_calls_buffer |-> IF created THEN EmptyMap ELSE buffer,
              tool_input_json |-> g.tool_input_json,
              partial_text |-> g.partial_text,
              current_tool_name |-> g.current_tool_name,
              messages |-> g.messages \o
                           Opt(submits, openai_tool_messages(g, run)),
              tools |-> g.tools,
              tool_choice |-> tool_choice,
              multimodal |-> g.multimodal,
              enabled_tools |-> g.enabled_tools,
              usage |-> g.usage,
              issued |-> g.issued \o Opt(created, <<tool_choice>>)],
             Opt(has_content, <<"text">>)
             \o Opt(has_call /\ first /\ tool_call.name # <<>>,
                    <<"tool_call_start">>)
             \o Opt(complete /\ ~executes, <<"tool_call_end">>)
             \o Opt(executes, <<"tool_call_start">>
                              \o status_events(forwarded(run.statuses)))
             \o Opt(raised, <<"error">>)
             \o Opt(finished /\ chunk.usage, <<"usage">>)
             \o Opt(returns, <<"[DONE]">>),
             resubmitted)

\* One pass of the body of "async for event in response" of
\* anthropic_stream_generator.
anthropic_event(g, event, run, create_raises) ==
    LET type == event.type
        block_start == type = "content_block_start"
        delta == type = "content_block_delta"
        text_start == block_start /\ event.block = "text"
        tool_start == block_start /\ event.block = "tool_use"
        text_delta == delta /\ event.delta = "text_delta"
        json_delta == delta /\ event.delta = "input_json_delta"
        tool_input_json ==
            IF tool_start THEN <<>>
            ELSE IF json_delta THEN g.tool_input_json \o event.partial_json
            ELSE g.tool_input_json
        tool_stop == type = "content_block_stop" /\ g.current_tool_name # <<>>
        executes == /\ tool_stop
                    /\ g.tool_input_json = <<>> \/ valid_json(g.tool_input_json)
        submits == executes /\ ~run.raised /\ has_tool_result(run)
        rerenders == submits /\ g.tool_calls_count > 0 /\ g.tools
        rendered == get_tool_definitions(BuiltinNames,
                        [canonical_tools |-> g.enabled_tools])
        created == submits /\ ~(rerenders /\ rendered.raised # None)
        resubmitted == created /\ ~create_raises
        raised == \/ executes /\ run.raised
                  \/ rerenders /\ rendered.raised # None
                  \/ created /\ create_raises
                  \/ type = "error"
        message_delta == type = "message_delta"
        should_continue ==
            /\ ~resubmitted
            /\ \/ g.should_continue
               \/ message_delta /\ event.stop_reason = "tool_use"
        partial_text ==
            IF resubmitted THEN FALSE
            ELSE \/ g.partial_text
                 \/ text_start /\ event.text
                 \/ text_delta
    IN  Step([pc |-> IF raised THEN "ended" ELSE "iterating",
              should_continue |-> should_continue,
              tool_calls_count |->
                  IF resubmitted THEN g.tool_calls_count + 1
                  ELSE g.tool_calls_count,
              text_generated |-> g.text_generated,
              tool_calls_buffer |-> g.tool_calls_buffer,
              tool_input_json |-> tool_input_json,
              partial_text |-> partial_text,
              current_tool_name |->
                  IF tool_start THEN event.name
                  ELSE IF resubmitted THEN <<>>
                  ELSE IF tool_stop /\ ~raised /\ ~g.should_continue THEN <<>>
                  ELSE g.current_tool_name,
              messages |-> g.messages \o
                           Opt(submits, anthropic_tool_messages(g, run)),
              tools |-> g.tools,
              tool_choice |-> g.tool_choice,
              multimodal |-> g.multimodal,
              enabled_tools |-> g.enabled_tools,
              usage |-> g.usage \/ type = "message_start"
                                \/ message_delta,
              issued |-> g.issued \o Opt(created, <<g.tool_choice>>)],
             Opt(text_start \/ text_delta, <<"text">>)
             \o Opt(tool_stop /\ ~executes, <<"tool_call_end">>)
             \o Opt(executes, <<"tool_call_start">>
                              \o status_events(forwarded(run.statuses)))
             \o Opt(resubmitted /\ g.partial_text, <<"text">>)
             \o Opt(message_delta, <<"usage">>)
             \o Opt(message_delta /\ event.stop_reason # "tool_use",
                    <<"stop_reason">>)
             \o Opt(type = "message_stop" /\ ~g.should_continue, <<"[DONE]">>)
             \o Opt(type = "ping", <<"ping">>)
             \o Opt(raised, <<"error">>),
             resubmitted)

\* The run of handle_tool_call for the tool the event completes, if any.
NoRun == ToolRun(<<>>, <<>>, FALSE)
tool_name_of(g, event) ==
    IF stream.vendor = "openai"
    THEN IF event.tool_call.index \in DOMAIN g.tool_calls_buffer
         THEN g.tool_calls_buffer[event.tool_call.index].name
         ELSE event.tool_call.name
    ELSE g.current_tool_name
tool_runs(g, event) ==
    IF tool_name_of(g, event) = <<>> THEN {NoRun}
    ELSE handle_tool_call(tool_name_of(g, event))

\* The generator receives the next chunk or event of the response.
Receive ==
    /\ gen.pc = "iterating"
    /\ stream.vendor \in Vendors
    /\ \E event \in Offered(stream, gen) :
       \E run \in tool_runs(gen, event), create_raises \in BOOLEAN :
          LET step == IF stream.vendor = "openai"
                      THEN openai_chunk(gen, event, run, create_raises)
                      ELSE anthropic_event(gen, event, run, create_raises)
          IN  /\ gen' = step.gen
              /\ emitted' = emitted \o step.events
              /\ stream' = consume(stream, event, step.resubmitted)
    /\ UNCHANGED <<lifecycle_vars, client_vars, pure_vars, request_vars>>

\* The response ends: the "async for" is left without a break.  The OpenAI
\* generator yields [DONE]; the Anthropic generator yields nothing, and if
\* should_continue is set it iterates the ended response once more, which
\* yields nothing either.
StreamEnd ==
    /\ gen.pc = "iterating"
    /\ stream.vendor \in Vendors
    /\ AtEnd(stream)
    /\ gen' = [gen EXCEPT !.pc = "ended", !.should_continue = FALSE]
    /\ emitted' = emitted \o Opt(stream.vendor = "openai", <<"[DONE]">>)
    /\ UNCHANGED stream
    /\ UNCHANGED <<lifecycle_vars, client_vars, pure_vars, request_vars>>

\* Iterating the response raises (the connection to the vendor breaks): the
\* generator's handler yields an error event.
StreamRaises ==
    /\ gen.pc = "iterating"
    /\ ~Scripted(stream)
    /\ gen' = [gen EXCEPT !.pc = "ended"]
    /\ emitted' = emitted \o <<"error">>
    /\ UNCHANGED stream
    /\ UNCHANGED <<lifecycle_vars, client_vars, pure_vars, request_vars>>

ManagerUnstarted ==
    /\ ClientIdle
    /\ resolution = NoResolution
    /\ definition = NoDefinition
    /\ sessions = EmptyMap
    /\ server_capabilities = EmptyMap
    /\ server_definitions = EmptyMap
    /\ connection_tasks = EmptyMap
    /\ is_initialized = FALSE
    /\ lock_owner = NoCaller
    /\ lock_waiters = <<>>
    /\ tasks = [t \in TaskIds |-> Unborn]
    /\ cpc = [c \in Callers |-> "idle"]
    /\ tasks_to_cancel = [c \in Callers |-> {}]
    /\ last_init = "none"

\* A generator is started on the response of any vendor.
LoopInit ==
    /\ ManagerUnstarted
    /\ request = NoRequest
    /\ emitted = <<>>
    /\ \E vendor \in Vendors :
          stream = [vendor |-> vendor, mode |-> "free", responses |-> <<>>,
                    position |-> start_position(vendor), consumed |-> 0]
    /\ \E multimodal \in BOOLEAN, tools \in BOOLEAN :
          gen = GenStart(stream.vendor, multimodal, tools)

LoopNext == Receive \/ StreamEnd \/ StreamRaises

LoopSpec == LoopInit /\ [][LoopNext]_vars

\* A scripted stream: the vendor answers with text and one call of
\* web_search with complete arguments, and answers the resubmitted request
\* with text and its usage.
OpenAIScripts ==
    {<< <<TextChunk, ToolChunk(0, WebSearchName, <<>>),
          ToolChunk(0, <<>>, <<"{">>), ToolChunk(0, <<>>, <<"}">>)>>,
        <<TextChunk, FinishChunk("stop", TRUE)>> >>,
     << <<TextChunk, ToolChunk(0, WebSearchName, <<"{", "}">>)>>,
        <<TextChunk, TextChunk, FinishChunk("stop", TRUE)>> >>}
AnthropicScripts ==
    {<< <<MessageStart, TextBlockStart(FALSE), TextDelta, ContentBlockStop,
          ToolUseBlockStart(WebSearchName), InputJsonDelta(<<"{">>),
          InputJsonDelta(<<"}">>), ContentBlockStop>>,
        <<MessageStart, TextBlockStart(FALSE), TextDelta, ContentBlockStop,
          MessageDelta("end_turn"), MessageStop>> >>,
     << <<MessageStart, TextBlockStart(TRUE), ContentBlockStop,
          ToolUseBlockStart(WebSearchName), InputJsonDelta(<<"{", "}">>),
          ContentBlockStop>>,
        <<MessageStart, Ping, TextBlockStart(FALSE), TextDelta, TextDelta,
          ContentBlockStop, MessageDelta("max_tokens"), MessageStop>> >>}
Scripts(vendor) ==
    IF vendor = "openai" THEN OpenAIScripts ELSE AnthropicScripts

ScriptInit ==
    /\ ManagerUnstarted
    /\ request = NoRequest
    /\ emitted = <<>>
    /\ \E vendor \in Vendors : \E script \in Scripts(vendor) :
          stream = [vendor |-> vendor, mode |-> "script",
                    responses |-> script, position |-> "script",
                    consumed |-> 0]
    /\ \E multimodal \in BOOLEAN, tools \in BOOLEAN :
          gen = GenStart(stream.vendor, multimodal, tools)

ScriptNext == Receive \/ StreamEnd

ScriptSpec == ScriptInit /\ [][ScriptNext]_vars

\* --------------------------------------------------- the Gemini generator
\* gemini_stream_generator.  An event of a Gemini stream: the kind of the
\* first part of its first candidate ("none" when the candidate has no
\* parts), the names of its function calls, whether it carries a finish
\* reason, and whether it carries usage metadata.  An event without candidates
\* carries the prompt feedback.
GeminiEvent(part, function_calls, finish_reason, usage_metadata) ==
    [candidates |-> TRUE, part |-> part, function_calls |-> function_calls,
     finish_reason |-> finish_reason, usage_metadata |-> usage_metadata]
PromptFeedback ==
    [candidates |-> FALSE, part |-> "none", function_calls |-> <<>>,
     finish_reason |-> FALSE, usage_metadata |-> FALSE]
GeminiParts == {"text", "thought", "inline_data"}
GeminiCalls ==
    {<<n>> : n \in ToolCallNames} \cup {<<McpToolName, WebSearchName>>}
\* What an unscripted Gemini stream may send next: the prompt feedback alone,
\* or parts and function calls, until an event carries the finish reason.
gemini_offers(s, g) ==
    IF s.position = "finished" \/ s.consumed >= GeminiMaxChunks THEN {}
    ELSE (IF s.position = "start" THEN {PromptFeedback} ELSE {})
         \cup {GeminiEvent(p, <<>>, FALSE, FALSE) : p \in GeminiParts}
         \cup {GeminiEvent("text", <<>>, TRUE, u) : u \in BOOLEAN}
         \cup {GeminiEvent("none", <<>>, TRUE, TRUE)}
         \cup (IF g.tool_calls_count >= MaxRounds THEN {}
               ELSE {GeminiEvent("function_call", c, FALSE, FALSE) :
                        c \in GeminiCalls})
gemini_position(event, resubmitted) ==
    IF resubmitted THEN "start"
    ELSE IF event.finish_reason \/ ~event.candidates THEN "finished"
    ELSE "open"

\* The runs of handle_tool_call for the function calls of an event, one
\* after the other; none is started after one that raises.
RECURSIVE gemini_runs(_)
gemini_runs(function_calls) ==
    IF function_calls = <<>> THEN {<<>>}
    ELSE {<<run>> \o rest :
             run \in {r \in handle_tool_call(Head(function_calls)) :
                         ~r.raised},
             rest \in gemini_runs(Tail(function_calls))}
         \cup {<<run>> :
                  run \in {r \in handle_tool_call(Head(function_calls)) :
                              r.raised}}

\* What the caller receives for the function calls of an event.
RECURSIVE gemini_call_events(_)
gemini_call_events(runs) ==
    IF runs = <<>> THEN <<>>
    ELSE <<"tool_call_start">>
         \o status_events(forwarded(Head(runs).statuses))
         \o Opt(~Head(runs).raised, <<"tool_call_end">>)
         \o gemini_call_events(Tail(runs))

\* function_response_parts: every text part of every result, and the image
\* parts when the request is multimodal.
RECURSIVE function_response_parts(_, _)
function_response_parts(runs, multimodal) ==
    IF runs = <<>> THEN <<>>
    ELSE SelectSeq(Head(runs).result,
                   LAMBDA part : part \in TextParts \/ multimodal)
         \o function_response_parts(Tail(runs), multimodal)

\* The two contents one tool round appends to running_history, in the opposite
\* order and in the order of the code.
gemini_tool_messages_result_first(g, runs) ==
    <<Message("tool_result_message",
              function_response_parts(runs, g.multimodal)),
      Message("tool_use_message", Opt(g.partial_text, <<"text">>))>>
gemini_tool_messages(g, runs) ==
    <<Message("tool_use_message", Opt(g.partial_text, <<"text">>)),
      Message("tool_result_message",
              function_response_parts(runs, g.multimodal))>>

GeminiDefinitionParams == {"without_human_fallback", "mcp_tools"}
get_gemini_tool_definitions(builtin, kwargs) ==
    IF ~(DOMAIN kwargs \subseteq GeminiDefinitionParams)
    THEN [raised |-> "TypeError"]
    ELSE get_tool_definitions(builtin, kwargs)

\* One event of the response.  partial_text holds whether the local "text"
\* is non-empty, usage whether latest_usage is set, tool_choice the mode of
\* running_args["tool_config"].
gemini_event(g, event, runs, create_raises) ==
    LET has_parts == event.candidates /\ event.part # "none"
        is_call == has_parts /\ event.part = "function_call"
        tool_raised == \E i \in 1..Len(runs) : runs[i].raised
        submits == is_call /\ ~tool_raised
        rerenders == submits /\ g.tool_calls_count > 0
        rendered == get_gemini_tool_definitions(BuiltinNames,
                        [canonical_tools |-> g.enabled_tools])
        created == submits /\ ~(rerenders /\ rendered.raised # None)
        resubmitted == created /\ ~create_raises
        raised == \/ is_call /\ tool_raised
                  \/ rerenders /\ rendered.raised # None
                  \/ created /\ create_raises
    IN  Step([pc |-> IF raised THEN "ended" ELSE "iterating",
              should_continue |-> g.should_continue,
              tool_calls_count |->
                  IF created THEN g.tool_calls_count + 1
                  ELSE g.tool_calls_count,
              text_generated |-> g.text_generated,
              tool_calls_buffer |-> g.tool_calls_buffer,
              tool_input_json |-> g.tool_input_json,
              partial_text |->
                  IF resubmitted THEN FALSE
                  ELSE g.partial_text \/ (has_parts /\ event.part = "text"),
              current_tool_name |-> g.current_tool_name,
              messages |-> g.messages \o
                           Opt(submits, gemini_tool_messages(g, runs)),
              tools |-> g.tools,
              tool_choice |-> IF submits THEN "AUTO" ELSE g.tool_choice,
              multimodal |-> g.multimodal,
              enabled_tools |-> g.enabled_tools,
              usage |-> \/ g.usage
                        \/ /\ has_parts /\ ~is_call
                           /\ event.finish_reason /\ event.usage_metadata,
              issued |-> g.issued \o Opt(created, <<"AUTO">>)],
             Opt(has_parts /\ event.part = "inline_data",
                 <<"image_start", "image_chunk", "image_end">>)
             \o Opt(has_parts /\ event.part \in {"thought", "text"},
                    <<"text">>)
             \o Opt(is_call, gemini_call_events(runs))
             \o Opt(~event.candidates, <<"text">>)
             \o Opt(raised, <<"error">>),
             resubmitted)

GeminiReceive ==
    /\ gen.pc = "iterating"
    /\ stream.vendor = "gemini"
    /\ \E event \in gemini_offers(stream, gen) :
       \E runs \in gemini_runs(event.function_calls),
          create_raises \in BOOLEAN :
          LET step == gemini_event(gen, event, runs, create_raises)
          IN  /\ gen' = step.gen
              /\ emitted' = emitted \o step.events
              /\ stream' = [stream EXCEPT
                     !.consumed = @ + 1,
                     !.position = gemini_position(event, step.resubmitted)]
    /\ UNCHANGED <<lifecycle_vars, client_vars, pure_vars, request_vars>>

\* The response ends with no function call in it: the generator yields the
\* usage, then [DONE].
GeminiEnd ==
    /\ gen.pc = "iterating"
    /\ stream.vendor = "gemini"
    /\ gen' = [gen EXCEPT !.pc = "ended"]
    /\ emitted' = emitted \o <<"usage", "[DONE]">>
    /\ UNCHANGED stream
    /\ UNCHANGED <<lifecycle_vars, client_vars, pure_vars, request_vars>>

\* A generator is started on the response of any of the three vendors.
AllVendors == Vendors \cup {"gemini"}
VendorLoopInit ==
    /\ ManagerUnstarted
    /\ request = NoRequest
    /\ emitted = <<>>
    /\ \E vendor \in AllVendors :
          stream = [vendor |-> vendor, mode |-> "free", responses |-> <<>>,
                    position |-> start_position(vendor), consumed |-> 0]
    /\ \E multimodal \in BOOLEAN, tools \in BOOLEAN :
          gen = GenStart(stream.vendor, multimodal, tools)

VendorLoopNext ==
    Receive \/ StreamEnd \/ StreamRaises \/ GeminiReceive \/ GeminiEnd

VendorLoopSpec == VendorLoopInit /\ [][VendorLoopNext]_vars

\* ------------------------------------------------------------------ claims
IsStdio(tk) == tk.type = "stdio" /\ tk.config = "StdioServerConfig"
running_tasks(n) == {t \in Running : tasks[t].name = n}
live_sessions(n) ==
    {t \in TaskIds : tasks[t].name = n /\ tasks[t].stack = "session"}

\* C1: for every provider name there is at most one running supervised task
\* and at most one live ClientSession, and the session the map holds for the
\* name is that live session.
C1_AtMostOneSessionAndTask ==
    \A n \in Providers :
        /\ Cardinality(running_tasks(n)) <= 1
        /\ Cardinality(live_sessions(n)) <= 1
        /\ n \in DOMAIN sessions => sessions[n] \in live_sessions(n)

\* A provider re-initialized after a shutdown holds a session again after a
\* failed attempt, its earlier task being done.
C1_Witness ==
    \E t1, t2 \in TaskIds :
        /\ t1 # t2
        /\ tasks[t1].name = tasks[t2].name
        /\ done(tasks[t1])
        /\ tasks[t2].pc = "handshaking"
        /\ tasks[t2].attempt >= 1

\* C2: a task that was running when close_all_connections raised the shutdown
\* flag starts no connection attempt any more: from then on it only stays
\* where it is, closes its resources or ends; in particular its backoff sleep
\* never runs to completion (which would lead back to the loop head).
C2_NoReconnectAfterShutdown ==
    [][\A t \in TaskIds :
          tasks[t].shut =>
            /\ tasks'[t].pc \in {tasks[t].pc, "cleanup", "done"}
            /\ tasks[t].pc = "backoff" => tasks'[t].pc \in {"backoff", "done"}
            /\ tasks'[t].pc # "done" =>
                  tasks'[t].retry_delay = tasks[t].retry_delay]_vars

\* The shutdown flag is raised while a task waits in its backoff delay after
\* a failed attempt, and another one is connected.
C2_Witness ==
    /\ ~is_initialized
    /\ \E t \in TaskIds :
          tasks[t].shut /\ tasks[t].must_cancel /\ tasks[t].pc = "backoff"
    /\ \E t \in TaskIds :
          tasks[t].shut /\ tasks[t].must_cancel /\ tasks[t].pc = "connected"

\* C3: once close_all_connections has awaited the cancelled tasks and cleared
\* the maps (it sleeps, then returns), no supervised task is running, no exit
\* stack holds a transport or session, and _sessions, _server_capabilities
\* and _connection_tasks are empty; the manager is not initialized.
C3_ShutdownLeavesNothing ==
    \A c \in Callers :
        cpc[c] = "close_sleep" =>
            /\ ~is_initialized
            /\ Running = {}
            /\ \A t \in TaskIds : tasks[t].stack = "none"
            /\ sessions = EmptyMap
            /\ server_capabilities = EmptyMap
            /\ connection_tasks = EmptyMap

\* close_all_connections is about to return after it cancelled two tasks.
C3_Witness ==
    /\ \E c \in Callers : cpc[c] = "close_sleep"
    /\ \A t \in TaskIds : done(tasks[t]) /\ tasks[t].shut

\* C4: a close_all_connections call that finds the manager not initialized
\* (as every call after a shutdown does, whether it was made afterwards or
\* waited for the lock meanwhile) returns at once: it never reaches the
\* gather or the final sleep, and it leaves the maps, the flag and the tasks
\* as they are.
C4_SecondShutdownIsNoOp ==
    [][\A c \in Callers :
          (~is_initialized /\ cpc[c] \in {"idle", "close_wait"}
           /\ cpc'[c] # cpc[c]) =>
            /\ cpc'[c] \notin {"close_gather", "close_sleep"}
            /\ cpc[c] = "close_wait" =>
                 (cpc'[c] = "idle" /\ UNCHANGED <<mgr_vars, tasks>>)]_vars

\* A second call waits for the lock while the first one, having cancelled
\* the tasks, is about to return.
C4_Witness ==
    \E c1, c2 \in Callers :
        /\ cpc[c1] = "close_sleep"
        /\ cpc[c2] = "close_wait"
        /\ \E t \in TaskIds : done(tasks[t]) /\ tasks[t].shut

\* C5 as claimed: the supervised task of every provider, whatever its
\* transport, stays alive and registered until shutdown is called.
C5_EveryTaskStaysUntilShutdown ==
    [][\A t \in TaskIds :
          (tasks'[t].pc # "unborn" /\ ~tasks'[t].shut) =>
            /\ tasks'[t].pc # "done"
            /\ tasks'[t].name \in DOMAIN connection_tasks'
            /\ connection_tasks'[tasks'[t].name] = t]_vars

\* C5 (amended): the supervised task of a provider with a stdio definition
\* stays alive and registered under its name as long as shutdown has not been
\* called, and a connection attempt of it that fails (at the transport, at the
\* session or at the handshake) leads to the reconnect path (cleanup, then
\* backoff), never out of the loop.
C5_StdioTaskStaysUntilShutdown ==
    [][\A t \in TaskIds :
          ((IsStdio(tasks[t]) \/ IsStdio(tasks'[t])) /\ ~tasks'[t].shut) =>
            /\ tasks'[t].pc # "done"
            /\ tasks'[t].name \in DOMAIN connection_tasks'
            /\ connection_tasks'[tasks'[t].name] = t
            /\ (tasks[t].pc \in {"connecting", "session_enter", "handshaking"}
                /\ tasks'[t].pc # tasks[t].pc) =>
                  tasks'[t].pc \in {"session_enter", "handshaking",
                                    "connected", "cleanup", "backoff"}]_vars

\* Without any shutdown, a stdio task has failed MaxAttempt times and is
\* still registered, waiting for its next attempt.
C5_Witness ==
    \E t \in TaskIds :
        /\ IsStdio(tasks[t])
        /\ ~tasks[t].shut
        /\ tasks[t].attempt = MaxAttempt
        /\ tasks[t].pc = "connecting"
        /\ connection_tasks[tasks[t].name] = t


\* C6: a connected task whose transport has failed eventually drops the
\* provider's session (or the manager is shut down), and eventually makes a
\* new connection attempt (or the manager is shut down).
C6_ReconnectAfterTransportFailure ==
    \A t \in TaskIds :
        /\ (tasks[t].pc = "connected" /\ ~tasks[t].transport_ok)
              ~> (tasks[t].name \notin DOMAIN sessions \/ ~is_initialized)
        /\ (tasks[t].pc = "connected" /\ ~tasks[t].transport_ok)
              ~> (tasks[t].pc = "connecting" \/ ~is_initialized)

\* C7: a task that has completed n backoff waits since its start or its last
\* successful handshake holds the delay min(5 * 2^n, 60) for its next wait;
\* the delay is never below 5 nor above 60, and it is 5 once connected.
C7_BackoffDelay ==
    \A t \in Running :
        /\ tasks[t].retry_delay = Min(5 * 2 ^ tasks[t].attempt, 60)
        /\ tasks[t].retry_delay >= 5
        /\ tasks[t].retry_delay <= 60
        /\ tasks[t].pc = "connected" => tasks[t].retry_delay = 5

\* After MaxAttempt failed attempts in a row the delay has reached the cap.
C7_Witness ==
    \E t \in Running :
        /\ tasks[t].attempt = MaxAttempt
        /\ tasks[t].retry_delay = 60
        /\ tasks[t].pc = "connecting"

\* The connection state of a supervised task, read off the await it is at.
conn_state(tk) ==
    CASE tk.pc = "unborn" -> "None"
      [] tk.pc = "loop" -> "Disconnected"
      [] tk.pc \in {"connecting", "http_wait"} -> "Connecting"
      [] tk.pc \in {"session_enter", "handshaking"} -> "Handshaking"
      [] tk.pc = "connected" -> "Connected"
      [] tk.pc = "backoff" -> "Reconnecting"
      [] tk.pc = "cleanup" ->
            IF tk.exiting THEN "ShuttingDown" ELSE "Reconnecting"
      [] tk.pc = "done" -> "Closed"

ClaimedTransitions ==
    {<<"Disconnected", "Connecting">>, <<"Connecting", "Handshaking">>,
     <<"Handshaking", "Connected">>, <<"Connected", "Reconnecting">>,
     <<"Reconnecting", "Disconnected">>, <<"Connected", "ShuttingDown">>,
     <<"Reconnecting", "ShuttingDown">>, <<"ShuttingDown", "Closed">>}

\* What the code adds: a failed attempt goes to the backoff without ever
\* being connected, and a cancellation or a break can end a task from any
\* state (directly when its exit stack is empty).
AmendedTransitions ==
    ClaimedTransitions \cup
    {<<"Connecting", "Reconnecting">>, <<"Handshaking", "Reconnecting">>,
     <<"Handshaking", "ShuttingDown">>, <<"Disconnected", "Closed">>,
     <<"Connecting", "Closed">>, <<"Reconnecting", "Closed">>}

StateMachine(allowed) ==
    /\ \A t \in TaskIds :
          LET a == conn_state(tasks[t])
              b == conn_state(tasks'[t])
          IN /\ a = "None" => b \in {"None", "Disconnected"}
             /\ a = "Closed" => b = "Closed"
             /\ a \notin {"None", "Closed"} => (a = b \/ <<a, b>> \in allowed)
    /\ \A n \in Providers :
          n \in DOMAIN sessions' <=>
            \E t \in TaskIds :
                tasks'[t].name = n /\ conn_state(tasks'[t]) = "Connected"

\* C8 as claimed: only the transitions of the specification's state machine.
C8_ClaimedStateMachine == [][StateMachine(ClaimedTransitions)]_vars

\* C8 (amended): a task starts Disconnected, follows only the claimed
\* transitions or Connecting|Handshaking -> Reconnecting, Handshaking ->
\* ShuttingDown, Disconnected|Connecting|Reconnecting -> Closed; Closed is
\* terminal for the task; a provider is in the session map exactly while a
\* task of it is Connected.
C8_AmendedStateMachine == [][StateMachine(AmendedTransitions)]_vars

\* One provider is connected while the other one, having failed twice, is on
\* its third attempt.
C8_Witness ==
    \E t1, t2 \in TaskIds :
        /\ tasks[t1].pc = "connected"
        /\ tasks[t1].name \in DOMAIN sessions
        /\ tasks[t2].pc = "session_enter"
        /\ tasks[t2].attempt = 2

\* C9: the step of initialize_from_config that makes the manager initialized
\* from a servers dict leaves one new task per provider of the dict,
\* registered under the provider's name and not yet run, and awaits no
\* connection (no session exists in its final state).
C9_InitializeSchedulesAndReturns ==
    [][(~is_initialized /\ is_initialized') =>
          /\ last_init' \in {"started", "empty"}
          /\ last_init' = "empty" => tasks' = tasks
          /\ last_init' = "started" =>
                /\ DOMAIN connection_tasks' = DOMAIN server_definitions'
                /\ DOMAIN server_definitions' # {}
                /\ \A n \in DOMAIN server_definitions' :
                      /\ tasks[connection_tasks'[n]].pc = "unborn"
                      /\ tasks'[connection_tasks'[n]].pc = "loop"
                      /\ tasks'[connection_tasks'[n]].name = n
                /\ \A n, m \in DOMAIN server_definitions' :
                      connection_tasks'[n] = connection_tasks'[m] => n = m
                /\ Cardinality(Born') =
                      Cardinality(Born) + Cardinality(DOMAIN server_definitions')
          /\ sessions' = EmptyMap]_vars

\* The manager is initialized and every provider of the configuration has
\* turned out unreachable: both tasks wait in their backoff.
C9_Witness ==
    /\ is_initialized
    /\ last_init = "started"
    /\ \A t \in TaskIds : tasks[t].pc = "backoff" /\ ~tasks[t].shut

\* C10 as claimed: after a configuration with an invalid entry and a valid
\* one, the manager is initialized and a task runs for the valid provider.
C10_InvalidEntryFailsThatProviderOnly ==
    last_init = "validation_error_some_valid" =>
        /\ is_initialized
        /\ Running # {}

\* C10 (amended): after a configuration with an invalid entry beside valid
\* ones, the manager is not initialized, its provider definitions are empty
\* and no supervised task is registered or running, for the valid providers
\* either.
C10_InvalidEntryFailsInitialization ==
    last_init = "validation_error_some_valid" =>
        /\ ~is_initialized
        /\ server_definitions = EmptyMap
        /\ connection_tasks = EmptyMap
        /\ Running = {}

\* A partly invalid configuration was rejected after an earlier round of
\* tasks.
C10_Witness ==
    /\ last_init = "validation_error_some_valid"
    /\ server_definitions = EmptyMap
    /\ \E t \in TaskIds : done(tasks[t])


\* --------------------------------------------------- claims on tool calls
listed(call) == {n \in DOMAIN call.fetch : call.fetch[n] = "listed"}

ListCallConsistent(call) ==
    /\ call.pc # "raised"
    /\ DOMAIN call.fetch = DOMAIN call.snap
    /\ call.pc = "gather" =>
          call.all_canonical_tools =
              UNION {canonical_tools(n) : n \in listed(call)}

ListCallStep(k) ==
    LET old == list_calls[k]
        new == list_calls'[k]
    IN /\ (old.pc = "idle" /\ new.pc = "gather") =>
              is_initialized /\ new.snap = sessions
       /\ (old.pc = "idle" /\ new.pc = "returned") =>
              new.all_canonical_tools = {}
       /\ (old.pc = "gather" /\ new.pc = "returned") =>
              new.all_canonical_tools =
                  UNION {canonical_tools(n) : n \in listed(old)}
       /\ old.pc = "gather" =>
              \A n \in DOMAIN old.fetch :
                 /\ (old.fetch[n] = "todo" /\ new.fetch[n] # "todo"
                        /\ n \notin DOMAIN sessions) =>
                        new.fetch[n] = "dropped"
                 /\ (old.fetch[n] = "todo" /\ new.fetch[n] = "pending") =>
                        server_capabilities[n] = "tools"
                 /\ (old.fetch[n] # "listed" /\ new.pc = "gather"
                        /\ new.fetch[n] = "listed") =>
                        /\ old.fetch[n] = "pending"
                        /\ n \in DOMAIN sessions
                        /\ sessions[n] = old.snap[n]

C12_NameRoundTrip ==
    resolution.phase = "round_trip" =>
        /\ resolution.full_tool_name =
              MCP_PREFIX \o resolution.server_name \o Hyphen \o resolution.tool
        /\ resolution.result.raised = "no"
        /\ resolution.result.server_name = resolution.server_name
        /\ resolution.result.original_tool_name = resolution.tool

\* The keys of the configuration that, followed by a hyphen, begin x.
matching_keys(keys, x) ==
    {keys[i] : i \in {j \in 1..Len(keys) : startswith(x, keys[j] \o Hyphen)}}
longest_key(ks) == CHOOSE k \in ks : \A o \in ks : Len(o) <= Len(k)
reversed(keys) == [i \in 1..Len(keys) |-> keys[Len(keys) + 1 - i]]

C14_NamesUnique ==
    resolution.phase = "emitted" =>
        /\ \A i \in 1..Len(resolution.keys), tool \in ToolNames :
              mcp_tool_to_canonical(resolution.keys[i], tool) =
                  resolution.full_tool_name
              => /\ resolution.keys[i] = resolution.server_name
                 /\ tool = resolution.tool
        /\ resolution.full_tool_name \notin BuiltinToolNames


\* ----------------------------------------------- claims on execute_mcp_tool
\* C15: a call of execute_mcp_tool made while the manager is initialized,
\* whose name resolves to a configured provider that has no session at that
\* time, raises ConnectionError without calling session.call_tool; call_tool
\* is only ever called on the session stored for the provider at the time of
\* the call.
C15_ExecuteNeedsSession ==
    /\ [](\A k \in ExecCallIds :
            exec_calls[k].invoked => exec_calls[k].session # 0)
    /\ [][\A k \in ExecCallIds :
            LET old == exec_calls[k]
                new == exec_calls'[k]
            IN (old.pc = "idle" /\ new.pc # "idle" /\ is_initialized
                  /\ new.server_name # None) =>
                 /\ new.server_name \in DOMAIN server_definitions
                 /\ IF new.server_name \in DOMAIN sessions
                    THEN /\ new.pc = "call_tool"
                         /\ new.session = sessions[new.server_name]
                    ELSE /\ new.pc = "raised"
                         /\ new.raised = "ConnectionError"
                         /\ ~new.invoked]_vars

\* The call was refused with ConnectionError while the provider's task waits
\* in its backoff.
C15_Witness ==
    \E k \in ExecCallIds, t \in TaskIds :
        /\ exec_calls[k].raised = "ConnectionError"
        /\ ~exec_calls[k].invoked
        /\ tasks[t].name = exec_calls[k].server_name
        /\ tasks[t].pc = "backoff"
        /\ is_initialized

\* C16: the exception raised for a result flagged is-error is a RuntimeError,
\* while a missing session, a failure of the transport and a timeout are
\* raised as other classes (ConnectionError, the transport's own exception,
\* TimeoutError), so the class tells the provider's error from those.
C16_ToolErrorIsDistinctKind ==
    \A k \in ExecCallIds :
        /\ exec_calls[k].cause = "isError" =>
              /\ exec_calls[k].raised = "RuntimeError"
              /\ exec_calls[k].invoked
        /\ exec_calls[k].cause \in {"not_connected", "transport"} =>
              exec_calls[k].raised \in {"ConnectionError", "Exception"}
        /\ exec_calls[k].cause = "timeout" =>
              exec_calls[k].raised = "TimeoutError"

\* The provider answered the call with an is-error result.
C16_Witness ==
    \E k \in ExecCallIds :
        /\ exec_calls[k].pc = "raised"
        /\ exec_calls[k].cause = "isError"
        /\ exec_calls[k].raised = "RuntimeError"

IsHttp(tk) == tk.type = "http" /\ tk.config = "HttpServerConfig"

\* C17: the task of an http provider never enters a connection attempt, a
\* handshake or the connected state and its name never enters the session
\* map; a call of execute_mcp_tool that resolves to it while the manager is
\* initialized ends at once with ConnectionError; the call that initializes
\* the manager returns in the step that starts the tasks; and a shutdown that
\* awaits its tasks always returns.
C17_HttpStubFailsClearly ==
    /\ [](\A t \in TaskIds :
            IsHttp(tasks[t]) =>
               /\ tasks[t].pc \in {"loop", "http_wait"}
               /\ tasks[t].stack = "none"
               /\ tasks[t].name \notin DOMAIN sessions)
    /\ [][/\ \A k \in ExecCallIds :
               (/\ exec_calls[k].pc = "idle"
                /\ exec_calls'[k].pc # "idle"
                /\ is_initialized
                /\ exec_calls'[k].server_name \in DOMAIN server_definitions
                /\ server_definitions[exec_calls'[k].server_name].type = "http")
               => /\ exec_calls'[k].pc = "raised"
                  /\ exec_calls'[k].raised = "ConnectionError"
          /\ (~is_initialized /\ is_initialized') =>
                cpc'[Owner] = "idle" /\ lock_owner' = NoCaller]_vars
    /\ (cpc[Owner] = "close_gather") ~> (cpc[Owner] = "idle")

\* A tool call that resolved to the http provider was refused, and the
\* shutdown now awaits the provider's task, cancelled in the stub's wait.
C17_Witness ==
    \E k \in ExecCallIds, t \in TaskIds :
        /\ exec_calls[k].raised = "ConnectionError"
        /\ tasks[t].name = exec_calls[k].server_name
        /\ IsHttp(tasks[t])
        /\ tasks[t].pc = "http_wait"
        /\ tasks[t].must_cancel
        /\ cpc[Owner] = "close_gather"

TerminalEvents == {"[DONE]", "stop_reason", "error"}

\* C20: when a generator has ended, the last event it delivered to its caller
\* is a terminal one: [DONE], a stop_reason event or an error event.
C20_NeverStopsSilently ==
    gen.pc = "ended" =>
        /\ emitted # <<>>
        /\ emitted[Len(emitted)] \in TerminalEvents

\* The events of pattern occur in events, in the order of pattern.
RECURSIVE in_order(_, _)
in_order(pattern, events) ==
    IF pattern = <<>> THEN TRUE
    ELSE IF events = <<>> THEN FALSE
    ELSE IF Head(pattern) = Head(events)
    THEN in_order(Tail(pattern), Tail(events))
    ELSE in_order(pattern, Tail(events))
count(x, q) == Cardinality({i \in 1..Len(q) : q[i] = x})
kinds(messages) == [i \in 1..Len(messages) |-> messages[i].kind]

\* The scripted stream was delivered in full: the vendor's first response up
\* to the tool call, and the whole response to the resubmitted request.
ScriptDelivered ==
    /\ Scripted(stream)
    /\ gen.pc = "ended"
    /\ stream.responses = << <<>> >>

parts_of(content) == {content[i] : i \in 1..Len(content)}
appended(g, h) == SubSeq(h.messages, Len(g.messages) + 1, Len(h.messages))

\* C21: a step in which a tool execution raises (the caller receives the
\* tool's error status) appends to the transcript a tool result whose content
\* signals the error, and re-issues the completion call.
C21_ToolErrorsReachTranscript ==
    [][count("tool_error", emitted') > count("tool_error", emitted) =>
          /\ \E i \in 1..Len(appended(gen, gen')) :
                /\ appended(gen, gen')[i].kind = "tool_result_message"
                /\ "error_text" \in parts_of(appended(gen, gen')[i].content)
          /\ Len(gen'.issued) = Len(gen.issued) + 1]_vars

\* The first completion call of the request, the one the handler issued,
\* forces a tool call.
FirstCallForced ==
    GenStart(stream.vendor, gen.multimodal, gen.tools).tool_choice
        \in {"required", "ANY"}

\* C22: when the first completion call forces a tool call, every re-issued
\* completion call carries the automatic tool choice.
C22_ToolChoiceRelaxed ==
    FirstCallForced =>
        \A i \in 1..Len(gen.issued) : gen.issued[i] \in {"auto", "AUTO"}

ends_with_done == emitted # <<>> /\ emitted[Len(emitted)] = "[DONE]"
first_index(x, q) ==
    IF count(x, q) = 0 THEN Len(q) + 1
    ELSE CHOOSE i \in 1..Len(q) :
            q[i] = x /\ \A j \in 1..(i - 1) : q[j] # x

\* C23: the terminal marker is emitted only when no tool invocation of the
\* response is left unexecuted, and after the usage when usage was
\* accumulated; and every round that executes a tool and extends the
\* transcript re-issues the completion call.
C23_DoneOnlyWithoutToolCall ==
    /\ [](ends_with_done =>
             /\ gen.tool_calls_buffer = EmptyMap
             /\ gen.usage => first_index("usage", emitted) < Len(emitted))
    /\ [][Len(gen'.messages) > Len(gen.messages) =>
             Len(gen'.issued) = Len(gen.issued) + 1]_vars

is_prefix(p, q) == Len(p) <= Len(q) /\ SubSeq(q, 1, Len(p)) = p
ToolNotices == {"tool_execution", "tool_error"}

\* The transcript is made of tool rounds: each entry that carries an
\* invocation is directly followed by the entry that carries its result, and
\* each result directly follows its invocation.
RoundsInOrder(messages) ==
    \A i \in 1..Len(messages) :
        /\ messages[i].kind = "tool_use_message" =>
              /\ i < Len(messages)
              /\ messages[i + 1].kind = "tool_result_message"
        /\ messages[i].kind = "tool_result_message" =>
              /\ i > 1
              /\ messages[i - 1].kind = "tool_use_message"

\* C24: the transcript and the caller's events only grow at their end; the
\* entry with an invocation comes immediately before the entry with its
\* result; a completion call is re-issued only in a round whose two entries
\* are in the transcript; and no status of a tool's execution is delivered
\* before the tool_call_start of a call.
C24_TranscriptInCallOrder ==
    /\ [][/\ is_prefix(gen.messages, gen'.messages)
          /\ is_prefix(emitted, emitted')
          /\ Len(gen'.issued) > Len(gen.issued) =>
                /\ is_prefix(gen.issued, gen'.issued)
                /\ Len(appended(gen, gen')) >= 2
                /\ appended(gen, gen')[1].kind = "tool_use_message"
                /\ appended(gen, gen')[2].kind = "tool_result_message"]_vars
    /\ [](/\ RoundsInOrder(gen.messages)
          /\ \A i \in 1..Len(emitted) :
                emitted[i] \in ToolNotices =>
                    \E j \in 1..(i - 1) : emitted[j] = "tool_call_start")

\* Two tool rounds were made, each with its notice to the caller.
C24_Witness ==
    /\ Len(gen.issued) = 2
    /\ Len(gen.messages) >= 4
    /\ count("tool_execution", emitted) = 2

\* C25: when the vendor's response fails while the generator iterates it and
\* usage statistics were accumulated, the caller receives a usage event
\* before the error event.
C25_UsageBeforeVendorError ==
    [][StreamRaises /\ gen.usage =>
          first_index("usage", emitted') < Len(emitted')]_vars

\* C26: in a request that is not multimodal, no image part of a tool result
\* is in the transcript.
C26_ImagesOnlyWhenMultimodal ==
    ~gen.multimodal =>
        \A i \in 1..Len(gen.messages) :
            "image" \notin parts_of(gen.messages[i].content)

\* ------------------------------------------- claims on the manager's state
\* C27: a step of get_available_tools or of execute_mcp_tool, whether the
\* call goes on, returns or raises, leaves the session map, the capability
\* map, the provider definitions and the set of supervised tasks as they are.
C27_ClientsLeaveManagerState ==
    [][(\E k \in ListCallIds : ListStep(k))
       \/ (\E k \in ExecCallIds : ExecuteStep(k))
       => UNCHANGED <<sessions, server_capabilities, server_definitions,
                      connection_tasks>>]_vars

\* A listing and an execution have both failed while a session is held.
C27_Witness ==
    /\ \E k \in ListCallIds, n \in Providers :
          /\ n \in DOMAIN list_calls[k].fetch
          /\ list_calls[k].fetch[n] = "failed"
    /\ \E k \in ExecCallIds : exec_calls[k].pc = "raised"
    /\ DOMAIN sessions # {}

\* ------------------------------------------------------- tool definitions
\* _mcp_tool_to_canonical, generate_tool_definition and
\* convert_tool_definition_for_vendor.  Descriptions are left out: they are
\* copied and nothing depends on them.
\*
\* A value of a provider's inputSchema: a key that is absent, a value of
\* another Python type than the expected one, or the expected dict or list.
Missing == [kind |-> "missing"]
Other == [kind |-> "other"]
ParamNames == {"a", "b"}
TypeNames == {"string", "integer", "number", "boolean", "object", "array"}
ItemTypes == {"string", "integer"}
ItemsSchemas ==
    {Missing, Other}
    \cup {[kind |-> "dict", type |-> t] : t \in ItemTypes \cup {"missing"}}
SchemaProps ==
    {Other}
    \cup {[kind |-> "dict", type |-> "array", items |-> i] :
             i \in ItemsSchemas}
    \cup {[kind |-> "dict", type |-> t, items |-> i] :
             t \in (TypeNames \ {"array"}) \cup {"missing"},
             i \in {Missing, [kind |-> "dict", type |-> "string"]}}
Properties ==
    {Missing, Other}
    \cup {[kind |-> "dict", map |-> m] :
             m \in UNION {[D -> SchemaProps] : D \in SUBSET ParamNames}}
RequiredLists ==
    {Missing, Other}
    \cup {[kind |-> "list", names |-> q] :
             q \in {<<>>, <<"a">>, <<"b">>, <<"a", "b">>, <<"b", "a">>}}
\* "type" of the schema: "object", absent, None, or another type
SchemaTypes == {"object", "missing", "null", "string"}
InputSchemas ==
    {[kind |-> "none"], Other}
    \cup {[kind |-> "dict", type |-> t, properties |-> ps, required |-> r] :
             t \in SchemaTypes, ps \in Properties, r \in RequiredLists}
DescriptorNames == {<<"a">>, <<"a", "-", "a">>}
McpTools ==
    {[name |-> n, inputSchema |-> i] :
        n \in DescriptorNames, i \in InputSchemas}

\* Mutant: the items of a property are converted whatever its type is.
param_data_any_items(schema_prop) ==
    LET param_type == IF schema_prop.type = "missing" THEN "any"
                      ELSE schema_prop.type
    IN  IF schema_prop.items.kind = "dict"
        THEN [type |-> param_type,
              items |-> [type |-> IF schema_prop.items.type = "missing"
                                  THEN "any" ELSE schema_prop.items.type]]
        ELSE [type |-> param_type]

\* param_data of one property whose schema is a dict
param_data(schema_prop) ==
    LET param_type == IF schema_prop.type = "missing" THEN "any"
                      ELSE schema_prop.type
    IN  IF param_type = "array" /\ schema_prop.items.kind = "dict"
        THEN [type |-> param_type,
              items |-> [type |-> IF schema_prop.items.type = "missing"
                                  THEN "any" ELSE schema_prop.items.type]]
        ELSE [type |-> param_type]

\* The two branches that process the properties: the schema's type is
\* "object" (the default of an absent type), or it is falsy; the properties
\* are a dict that is not empty.
processes_properties(input_schema) ==
    /\ input_schema.kind = "dict"
    /\ input_schema.type \in {"object", "missing", "null"}
    /\ input_schema.properties.kind = "dict"
    /\ DOMAIN input_schema.properties.map # {}

canonical_def(server_name, mcp_tool) ==
    LET input_schema == mcp_tool.inputSchema
        properties == input_schema.properties.map
        kept == {n \in DOMAIN properties : properties[n].kind = "dict"}
    IN  [name |-> mcp_tool_to_canonical(server_name, mcp_tool.name),
         parameters |->
             IF processes_properties(input_schema)
             THEN [n \in kept |-> param_data(properties[n])]
             ELSE EmptyMap,
         required |->
             IF /\ processes_properties(input_schema)
                /\ input_schema.required.kind = "list"
             THEN input_schema.required.names
             ELSE <<>>]

\* A function of the tools directory: its name and the parameters of its
\* signature, each with its annotation and whether it has a default.
Annotations ==
    {"empty", "str", "int", "float", "bool", "list", "List[str]",
     "List[dict]", "dict", "Optional[str]"}
SignatureNames == {"self", "a", "b"}
Parameter(name, annotation, has_default) ==
    [name |-> name, annotation |-> annotation, has_default |-> has_default]
Signatures ==
    {<<>>}
    \cup {<<Parameter(n, a, d)>> :
             n \in SignatureNames, a \in Annotations, d \in BOOLEAN}
    \cup {<<Parameter(n, a, d), Parameter(m, b, e)>> :
             n \in {"self", "a"}, a \in Annotations, d \in BOOLEAN,
             m \in {"b"}, b \in Annotations, e \in BOOLEAN}
Functions == {[name |-> WebSearchName, signature |-> q] : q \in Signatures}

annotation_type(annotation) ==
    CASE annotation = "int" -> "integer"
      [] annotation = "float" -> "number"
      [] annotation = "bool" -> "boolean"
      [] annotation \in {"list", "List[str]", "List[dict]"} -> "array"
      [] annotation = "dict" -> "object"
      [] OTHER -> "string"
param_def(param) ==
    IF param.annotation = "List[str]"
    THEN [type |-> "array", items |-> [type |-> "string"]]
    ELSE [type |-> annotation_type(param.annotation)]
generate_tool_definition(func) ==
    LET params == SelectSeq(func.signature,
                            LAMBDA q : q.name \notin {"self", "cls"})
        at(n) == CHOOSE i \in 1..Len(params) : params[i].name = n
        required == SelectSeq(params, LAMBDA q : ~q.has_default)
    IN  [name |-> func.name,
         parameters |-> [n \in {params[i].name : i \in 1..Len(params)} |->
                            param_def(params[at(n)])],
         required |-> [i \in 1..Len(required) |-> required[i].name]]

\* Mutant: a boolean parameter is declared to Gemini as a STRING.
gemini_schema_type_boolean_as_string(type) ==
    CASE type \in {"integer", "number"} -> "NUMBER"
      [] type = "array" -> "ARRAY"
      [] type = "object" -> "OBJECT"
      [] OTHER -> "STRING"

\* schema_type of a parameter of a Gemini function declaration
gemini_schema_type(type) ==
    CASE type \in {"integer", "number"} -> "NUMBER"
      [] type = "boolean" -> "BOOLEAN"
      [] type = "array" -> "ARRAY"
      [] type = "object" -> "OBJECT"
      [] OTHER -> "STRING"
gemini_items_type(param) ==
    IF "items" \notin DOMAIN param THEN "STRING"
    ELSE CASE param.items.type \in {"integer", "number"} -> "NUMBER"
           [] param.items.type = "boolean" -> "BOOLEAN"
           [] OTHER -> "STRING"
gemini_schema(param) ==
    IF param.type = "array"
    THEN [type |-> "ARRAY", items |-> [type |-> gemini_items_type(param)]]
    ELSE [type |-> gemini_schema_type(param.type)]

convert_tool_definition_for_vendor(tool_def, vendor) ==
    CASE vendor = "anthropic" ->
            [name |-> tool_def.name,
             input_schema |-> [type |-> "object",
                               properties |-> tool_def.parameters,
                               required |-> tool_def.required]]
      [] vendor = "gemini" ->
            [name |-> tool_def.name,
             parameters |->
                 [type |-> "OBJECT",
                  properties |-> [n \in DOMAIN tool_def.parameters |->
                                     gemini_schema(tool_def.parameters[n])],
                  required |-> tool_def.required]]
      [] OTHER ->
            [type |-> "function",
             function |-> [name |-> tool_def.name,
                           parameters |->
                               [type |-> "object",
                                properties |-> tool_def.parameters,
                                required |-> tool_def.required,
                                additionalProperties |-> FALSE],
                           strict |-> FALSE]]

\* A provider's descriptor or a function of the tools directory is given; its
\* canonical definition is made, and converted for a vendor.
DefinitionServer == <<"a">>
DefinitionInit ==
    /\ ClientIdle
    /\ HandlerIdle
    /\ resolution = NoResolution
    /\ definition \in
          {[phase |-> "descriptor", mcp_tool |-> t] : t \in McpTools}
          \cup {[phase |-> "function", func |-> f] : f \in Functions}
    /\ sessions = EmptyMap
    /\ server_capabilities = EmptyMap
    /\ server_definitions = EmptyMap
    /\ connection_tasks = EmptyMap
    /\ is_initialized = FALSE
    /\ lock_owner = NoCaller
    /\ lock_waiters = <<>>
    /\ tasks = [t \in TaskIds |-> Unborn]
    /\ cpc = [c \in Callers |-> "idle"]
    /\ tasks_to_cancel = [c \in Callers |-> {}]
    /\ last_init = "none"

McpToolToCanonical ==
    /\ definition.phase = "descriptor"
    /\ definition' =
          [phase |-> "canonical", made_from |-> definition,
           canonical |-> canonical_def(DefinitionServer, definition.mcp_tool)]
    /\ UNCHANGED <<lifecycle_vars, client_vars, handler_vars, resolution>>

GenerateToolDefinition ==
    /\ definition.phase = "function"
    /\ definition' =
          [phase |-> "canonical", made_from |-> definition,
           canonical |-> generate_tool_definition(definition.func)]
    /\ UNCHANGED <<lifecycle_vars, client_vars, handler_vars, resolution>>

ConvertForVendor ==
    /\ definition.phase = "canonical"
    /\ \E vendor \in AllVendors :
          definition' =
              [phase |-> "vendor", canonical |-> definition.canonical,
               vendor |-> vendor,
               converted |->
                   convert_tool_definition_for_vendor(definition.canonical,
                                                      vendor)]
    /\ UNCHANGED <<lifecycle_vars, client_vars, handler_vars, resolution>>

DefinitionNext ==
    McpToolToCanonical \/ GenerateToolDefinition \/ ConvertForVendor

DefinitionSpec == DefinitionInit /\ [][DefinitionNext]_vars

\* ------------------------------------------- claims on tool definitions
\* C28: in a canonical definition made from a provider's descriptor or from
\* a function, a parameter has items only when its type is array.
C28_ItemsOnlyForArrays ==
    definition.phase = "canonical" =>
        \A n \in DOMAIN definition.canonical.parameters :
            "items" \in DOMAIN definition.canonical.parameters[n] =>
                definition.canonical.parameters[n].type = "array"

\* A definition was made from a descriptor in which a property that is no
\* array has an items schema, and an array property has one too.
C28_Witness ==
    /\ definition.phase = "canonical"
    /\ definition.made_from.phase = "descriptor"
    /\ DOMAIN definition.canonical.parameters = ParamNames
    /\ LET map == definition.made_from.mcp_tool.inputSchema.properties.map
       IN  /\ map["a"].type = "integer" /\ map["a"].items.kind = "dict"
           /\ map["b"].type = "array" /\ map["b"].items.kind = "dict"
    /\ "items" \in DOMAIN definition.canonical.parameters["b"]

\* C29: in a canonical definition made from a provider's descriptor or from
\* a function, every required name is a key of the parameters.
C29_RequiredAreParameters ==
    definition.phase = "canonical" =>
        \A i \in 1..Len(definition.canonical.required) :
            definition.canonical.required[i]
                \in DOMAIN definition.canonical.parameters

\* The canonical definitions with parameters of the six types.
TypedParameters ==
    {[type |-> t] : t \in TypeNames \ {"array"}}
    \cup {[type |-> "array"]}
    \cup {[type |-> "array", items |-> [type |-> t]] : t \in ItemTypes}
TypedDefinitions ==
    {[name |-> n, parameters |-> ps, required |-> r] :
        n \in {WebSearchName, McpToolName},
        ps \in UNION {[D -> TypedParameters] : D \in SUBSET ParamNames},
        r \in {<<>>, <<"a">>, <<"b">>, <<"a", "b">>, <<"b", "a">>}}
is_typed(tool_def) ==
    \A n \in DOMAIN tool_def.parameters :
        tool_def.parameters[n].type \in TypeNames
required_set(tool_def) ==
    {tool_def.required[i] : i \in 1..Len(tool_def.required)}
\* Two definitions with the same name, the same required set and the same
\* type of each parameter.
same_types(d, e) ==
    /\ d.name = e.name
    /\ required_set(d) = required_set(e)
    /\ DOMAIN d.parameters = DOMAIN e.parameters
    /\ \A n \in DOMAIN d.parameters :
          d.parameters[n].type = e.parameters[n].type
\* The same, where integer and number are not told apart.
merged(type) == IF type = "integer" THEN "number" ELSE type
same_types_but_numbers(d, e) ==
    /\ d.name = e.name
    /\ required_set(d) = required_set(e)
    /\ DOMAIN d.parameters = DOMAIN e.parameters
    /\ \A n \in DOMAIN d.parameters :
          merged(d.parameters[n].type) = merged(e.parameters[n].type)

vendor_properties(converted, vendor) ==
    CASE vendor = "anthropic" -> converted.input_schema.properties
      [] vendor = "gemini" -> converted.parameters.properties
      [] OTHER -> converted.function.parameters.properties
C31_NoItemsStaysNoItems ==
    definition.phase = "vendor" =>
        \A n \in DOMAIN definition.canonical.parameters :
            /\ definition.canonical.parameters[n].type = "array"
            /\ "items" \notin DOMAIN definition.canonical.parameters[n]
            => "items" \notin
                  DOMAIN vendor_properties(definition.converted,
                                           definition.vendor)[n]

\* ------------------------------------------ the definitions sent to a vendor
\* get_tool_definitions (backend/app/function_calling/definitions.py), step
\* by step: the functions of the tools directory, the canonical definitions
\* of the providers' tools that the caller supplies, and the flag
\* without_human_fallback.
RequestClarificationName ==
    <<"r", "e", "q", "u", "e", "s", "t", "_", "c", "l", "a", "r", "i", "f",
      "i", "c", "a", "t", "i", "o", "n">>
request_clarification ==
    [name |-> RequestClarificationName,
     signature |-> <<Parameter("a", "List[str]", FALSE)>>]
web_search ==
    [name |-> WebSearchName,
     signature |-> <<Parameter("a", "str", FALSE),
                     Parameter("b", "int", TRUE)>>]
\* What get_available_tools may return: the tools directory holds two
\* modules that define request_clarification.
AvailableTools ==
    Sublists(<<request_clarification, web_search>>)
    \cup {<<request_clarification, request_clarification, web_search>>}
\* Canonical definitions of a provider's tools, as _mcp_tool_to_canonical
\* names them; the last is of a tool a provider calls
\* "x/request_clarification".
RemoteDefinition(tool) ==
    [name |-> mcp_tool_to_canonical(DefinitionServer, tool),
     parameters |-> [n \in {"a"} |-> [type |-> "string"]],
     required |-> <<"a">>]
SlashRequestClarification == <<"/">> \o RequestClarificationName
\* mcp_tools is None.
NoMcpTools == <<[none |-> TRUE]>>
McpToolLists ==
    Sublists(<<RemoteDefinition(<<"a">>),
               RemoteDefinition(RequestClarificationName),
               RemoteDefinition(<<"x">> \o SlashRequestClarification)>>)

\* Step 2: the functions kept.
internal_tool_functions(available, without_human_fallback) ==
    IF without_human_fallback
    THEN SelectSeq(available,
                   LAMBDA f : f.name # RequestClarificationName)
    ELSE available
\* Step 4: the supplied definitions kept.
filtered_mcp_tools(mcp_tools, without_human_fallback) ==
    IF without_human_fallback
    THEN SelectSeq(mcp_tools,
                   LAMBDA t : ~endswith(t.name, SlashRequestClarification))
    ELSE mcp_tools
\* Steps 3 and 4: the canonical definitions, the internal ones first.
canonical_defs(available, without_human_fallback, mcp_tools) ==
    LET internal ==
            internal_tool_functions(available, without_human_fallback)
        generated == [i \in 1..Len(internal) |->
                         generate_tool_definition(internal[i])]
    IN  IF mcp_tools = NoMcpTools \/ mcp_tools = <<>>
        THEN generated
        ELSE generated \o
             filtered_mcp_tools(mcp_tools, without_human_fallback)
\* Step 5: a Tool of function declarations for Gemini, a list otherwise;
\* no vendor means openai.
vendor_defs(available, without_human_fallback, vendor, mcp_tools) ==
    LET target_vendor == IF vendor = None THEN "openai" ELSE vendor
        defs == canonical_defs(available, without_human_fallback, mcp_tools)
        converted == [i \in 1..Len(defs) |->
                         convert_tool_definition_for_vendor(defs[i],
                                                            target_vendor)]
    IN  IF target_vendor = "gemini"
        THEN [function_declarations |-> converted]
        ELSE converted

\* A call of get_tool_definitions: what the tools directory holds and the
\* arguments of the call.
ToolsetInit ==
    /\ ClientIdle
    /\ HandlerIdle
    /\ resolution = NoResolution
    /\ definition \in
          {[phase |-> "call", available |-> a, without_human_fallback |-> w,
            vendor |-> v, mcp_tools |-> m] :
              a \in AvailableTools, w \in BOOLEAN,
              v \in AllVendors \cup {None},
              m \in McpToolLists \cup {NoMcpTools}}
    /\ sessions = EmptyMap
    /\ server_capabilities = EmptyMap
    /\ server_definitions = EmptyMap
    /\ connection_tasks = EmptyMap
    /\ is_initialized = FALSE
    /\ lock_owner = NoCaller
    /\ lock_waiters = <<>>
    /\ tasks = [t \in TaskIds |-> Unborn]
    /\ cpc = [c \in Callers |-> "idle"]
    /\ tasks_to_cancel = [c \in Callers |-> {}]
    /\ last_init = "none"

GetToolDefinitions ==
    /\ definition.phase = "call"
    /\ definition' =
          [phase |-> "returned", call |-> definition,
           result |-> vendor_defs(definition.available,
                                  definition.without_human_fallback,
                                  definition.vendor, definition.mcp_tools)]
    /\ UNCHANGED <<lifecycle_vars, client_vars, handler_vars, resolution>>

ToolsetNext == GetToolDefinitions

ToolsetSpec == ToolsetInit /\ [][ToolsetNext]_vars

\* The names of the definitions returned for a vendor, in their order.
returned_definitions(result, vendor) ==
    IF vendor = "gemini" THEN result.function_declarations ELSE result
returned_names(result, vendor) ==
    LET defs == returned_definitions(result, vendor)
    IN  [i \in 1..Len(defs) |->
            IF vendor \in {"gemini", "anthropic"}
            THEN defs[i].name ELSE defs[i].function.name]
\* The request_clarification tool: the function of that name, or the tool of
\* that name of a provider, under either way of writing a provider's tool.
is_request_clarification(name) ==
    \/ name = RequestClarificationName
    \/ name = mcp_tool_to_canonical(DefinitionServer,
                                    RequestClarificationName)
    \/ endswith(name, SlashRequestClarification)
supplied(mcp_tools) == IF mcp_tools = NoMcpTools THEN <<>> ELSE mcp_tools
offered_names(call) ==
    [i \in 1..Len(call.available) |-> call.available[i].name]
    \o [i \in 1..Len(supplied(call.mcp_tools)) |->
           supplied(call.mcp_tools)[i].name]

\* C32: get_tool_definitions returns for each vendor one definition for each
\* available function and one for each supplied remote definition, with the
\* same names in the same order; with without_human_fallback none of them is
\* the request_clarification tool, of the directory or of a provider, and
\* every other tool is still returned.
C32_OnePerToolAndNoFallback ==
    definition.phase = "returned" =>
        LET call == definition.call
            vendor == IF call.vendor = None THEN "openai" ELSE call.vendor
        IN  returned_names(definition.result, vendor) =
                IF call.without_human_fallback
                THEN SelectSeq(offered_names(call),
                               LAMBDA n : ~is_request_clarification(n))
                ELSE offered_names(call)

\* --------------------------------------------------- one call of a tool
\* handle_tool_call is called with a name the vendor's response carries: a
\* builtin name, a provider's tool as listed, or any other string, with the
\* marker at its start, further in, or nowhere.
DispatchNames ==
    BuiltinToolNames
    \cup {pre \o MCP_PREFIX \o suf :
             pre \in StringsUpTo(1), suf \in StringsUpTo(MaxSuffixLen)}
    \cup StringsUpTo(MaxSuffixLen)

\* The branch handle_tool_call takes for a name.
route(tool_name) ==
    IF is_mcp_tool(tool_name) THEN "execute_mcp_tool"
    ELSE IF tool_name \in tool_functions_map THEN "tool_func"
    ELSE "unknown"

DispatchInit ==
    /\ ClientIdle
    /\ HandlerIdle
    /\ definition = NoDefinition
    /\ resolution \in {[phase |-> "called", tool_name |-> n] :
                          n \in DispatchNames}
    /\ sessions = EmptyMap
    /\ server_capabilities = EmptyMap
    /\ server_definitions = EmptyMap
    /\ connection_tasks = EmptyMap
    /\ is_initialized = FALSE
    /\ lock_owner = NoCaller
    /\ lock_waiters = <<>>
    /\ tasks = [t \in TaskIds |-> Unborn]
    /\ cpc = [c \in Callers |-> "idle"]
    /\ tasks_to_cancel = [c \in Callers |-> {}]
    /\ last_init = "none"

\* The generator of handle_tool_call is run to its end.
HandleToolCall ==
    /\ resolution.phase = "called"
    /\ \E run \in handle_tool_call(resolution.tool_name) :
          resolution' =
              [phase |-> "handled", tool_name |-> resolution.tool_name,
               route |-> route(resolution.tool_name), run |-> run]
    /\ UNCHANGED <<lifecycle_vars, client_vars, handler_vars, definition>>

DispatchNext == HandleToolCall

DispatchSpec == DispatchInit /\ [][DispatchNext]_vars

\* A name of the form mcp-<provider>-<tool>, provider and tool not empty.
is_remote_name(name) ==
    /\ startswith(name, MCP_PREFIX)
    /\ \E k \in 2..(Len(name) - 5) : name[4 + k] = "-"

\* C33: a call goes to the manager's execute_mcp_tool if and only if its
\* name is a provider's namespaced name, and otherwise to the builtin
\* function of that name; no builtin name goes to the manager and no
\* namespaced name is looked up among the builtin functions.  The formula
\* asks of a name that goes to the manager only that it begins with the
\* marker.
C33_RoutedByMarker ==
    resolution.phase = "handled" =>
        /\ is_remote_name(resolution.tool_name)
              => resolution.route = "execute_mcp_tool"
        /\ resolution.route = "execute_mcp_tool"
              => startswith(resolution.tool_name, MCP_PREFIX)
        /\ resolution.tool_name \in tool_functions_map
              <=> resolution.route = "tool_func"

\* ------------------------------------------- the buffer of tool call deltas
\* An OpenAI-style response that calls tools under two indexes, the arguments
\* coming in fragments; the last fragment may end with white space.
FragmentIndexes == {0, 1}
LaterFragments == Fragments \cup {<<"}", Whitespace>>}
fragment_offers(s, g) ==
    IF s.position = "finished" \/ s.consumed >= MaxFragments THEN {}
    ELSE {FinishChunk(r, FALSE) : r \in {"stop", "tool_calls"}}
         \cup (IF g.tool_calls_count >= MaxRounds THEN {}
               ELSE {ToolChunk(i, WebSearchName, a) :
                        i \in FragmentIndexes \ DOMAIN g.tool_calls_buffer,
                        a \in FirstFragments}
                    \cup
                    {ToolChunk(i, <<>>, a) :
                        i \in FragmentIndexes \cap DOMAIN g.tool_calls_buffer,
                        a \in LaterFragments})

\* The stream also keeps what it sent and what became of it: sent, the
\* fragments of each index of the response being iterated, joined in their
\* order; executed, the calls executed, each with the name buffered, the
\* arguments loaded and the fragments sent for it; lost, the arguments that
\* were a JSON value when the buffer was reset without their call; last, the
\* chunk sent last, what was sent for its index by then and whether a tool
\* was executed for it.
NoFragments == [i \in FragmentIndexes |-> <<>>]
\* The enabled tools handed to the generator, each by its name: the builtin
\* web_search alone, or a provider's tool alone.
EnabledLists == {<<WebSearchName>>, <<McpToolName>>}
FragmentStream(s, sent, executed, lost, last) ==
    [vendor |-> s.vendor, mode |-> s.mode, responses |-> s.responses,
     position |-> s.position, consumed |-> s.consumed,
     sent |-> sent, executed |-> executed, lost |-> lost, last |-> last]
BufferInit ==
    /\ ManagerUnstarted
    /\ request = NoRequest
    /\ emitted = <<>>
    /\ stream = FragmentStream(
                    [vendor |-> "openai", mode |-> "fragments",
                     responses |-> <<>>,
                     position |-> start_position("openai"), consumed |-> 0],
                    NoFragments, <<>>, {},
                    [chunk |-> UsageChunk, accumulated |-> <<>>,
                     executed |-> FALSE])
    /\ \E tools \in BOOLEAN, enabled_tools \in EnabledLists :
          gen = [GenStart("openai", FALSE, tools) EXCEPT
                    !.enabled_tools = enabled_tools]

\* The generator receives the next chunk of the response.
ReceiveFragment ==
    /\ gen.pc = "iterating"
    /\ \E event \in fragment_offers(stream, gen) :
       \E run \in tool_runs(gen, event), create_raises \in BOOLEAN :
          LET step == openai_chunk(gen, event, run, create_raises)
              has_call == event.tool_call # NoToolCall
              index == event.tool_call.index
              sent == IF has_call
                      THEN [stream.sent EXCEPT
                               ![index] = @ \o event.tool_call.arguments]
                      ELSE stream.sent
              loaded == IF has_call
                        THEN loaded_arguments(gen.tool_calls_buffer, event)
                        ELSE <<>>
              executed ==
                  stream.executed \o
                  [i \in 1..Len(loaded) |->
                      [name |-> buffered(gen.tool_calls_buffer,
                                         event)[index].name,
                       arguments |-> loaded[i], sent |-> sent[index]]]
              reset == step.gen.tool_calls_buffer = EmptyMap
              lost ==
                  IF has_call /\ reset
                  THEN stream.lost \cup
                       {sent[j] : j \in {k \in FragmentIndexes \ {index} :
                                            valid_json(sent[k])}}
                  ELSE stream.lost
          IN  /\ gen' = step.gen
              /\ emitted' = emitted \o step.events
              /\ stream' =
                    FragmentStream(
                        consume(stream, event, step.resubmitted),
                        IF has_call /\ reset THEN NoFragments ELSE sent,
                        executed, lost,
                        [chunk |-> event,
                         accumulated |-> IF has_call THEN sent[index]
                                         ELSE <<>>,
                         executed |-> loaded # <<>>])
    /\ UNCHANGED <<lifecycle_vars, client_vars, pure_vars, request_vars>>

BufferNext == ReceiveFragment \/ StreamEnd \/ StreamRaises

BufferSpec == BufferInit /\ [][BufferNext]_vars

\* C34, first part: a tool is executed only with the arguments that all the
\* fragments sent for its index make when joined in the order they came.
ExecutedWithAllFragments ==
    \A i \in 1..Len(stream.executed) :
        /\ stream.executed[i].arguments = stream.executed[i].sent
        /\ valid_json(stream.executed[i].arguments)
\* Second part: a fragment that ends with "}" while what was sent for its
\* index is no JSON value yet executes nothing and leaves the buffer as it
\* is, the fragment appended.
IncompleteKeepsBuffer ==
    LET last == stream.last
        index == last.chunk.tool_call.index
    IN  complete_arguments(last.chunk) /\ ~valid_json(last.accumulated) =>
            /\ ~last.executed
            /\ index \in DOMAIN gen.tool_calls_buffer
            /\ gen.tool_calls_buffer[index].arguments = last.accumulated
\* Third part: when the terminal marker is sent, no call whose arguments were
\* a JSON value is left without execution.
CompleteIsExecuted ==
    ends_with_done =>
        /\ stream.lost = {}
        /\ \A i \in FragmentIndexes : ~valid_json(stream.sent[i])
CompleteWithBraceIsExecuted ==
    ends_with_done =>
        /\ \A x \in stream.lost : ~endswith(x, <<"}">>)
        /\ \A i \in FragmentIndexes :
              ~(valid_json(stream.sent[i])
                /\ endswith(stream.sent[i], <<"}">>))
ExecuteMade(k) ==
    exec_calls[k].pc = "idle" /\ exec_calls'[k].pc # "idle"
ListMade(k) ==
    list_calls[k].pc = "idle" /\ list_calls'[k].pc # "idle"
C35_UninitializedCallsTouchNoProvider ==
    /\ [][\A k \in ExecCallIds :
             ExecuteMade(k) /\ ~is_initialized =>
                 /\ exec_calls'[k].pc = "raised"
                 /\ exec_calls'[k].raised = "RuntimeError"
                 /\ ~exec_calls'[k].invoked]_vars
    /\ [][\A k \in ListCallIds :
             ListMade(k) /\ ~is_initialized =>
                 /\ list_calls'[k].pc = "returned"
                 /\ list_calls'[k].all_canonical_tools = {}
                 /\ list_calls'[k].fetch = EmptyMap]_vars
    /\ [](\A k \in ExecCallIds :
             exec_calls[k].pc = "raised" => ~exec_calls[k].invoked
                \/ exec_calls[k].cause # "not_initialized")

\* close_all_connections has cleared the flag and awaits the cancelled tasks
\* while a session is still stored; a call of execute_mcp_tool was refused
\* for the flag and a call of get_available_tools has returned nothing.
C35_Witness ==
    /\ ~is_initialized
    /\ cpc[Owner] = "close_gather"
    /\ DOMAIN sessions # {}
    /\ \E k \in ExecCallIds :
          /\ exec_calls[k].cause = "not_initialized"
          /\ ~exec_calls[k].invoked
    /\ list_calls["l1"].pc = "returned"
    /\ list_calls["l1"].all_canonical_tools = {}

\* C36: when handle_tool_call does not raise, it yields tool_execution_complete
\* exactly once, as its last status, with a result that is a list, not
\* empty, of parts that are text or image; so for a builtin function that
\* returns, one that raises, a name that is no function, and a provider's
\* tool that returns or fails.
C36_OneCompleteAtTheEnd ==
    resolution.phase = "handled" /\ ~resolution.run.raised =>
        LET statuses == resolution.run.statuses
            result == resolution.run.result
        IN  /\ count("tool_execution_complete", statuses) = 1
            /\ statuses[Len(statuses)] = "tool_execution_complete"
            /\ result # <<>>
            /\ \A i \in 1..Len(result) : result[i] \in TextParts \cup {"image"}

\* C37: the generator executes only tools of the enabled list handed to it:
\* a tool that the caller disabled, or that is not in the list, is not
\* executed when the vendor's response calls it.
C37_OnlyEnabledToolsExecuted ==
    \A i \in 1..Len(stream.executed) :
        stream.executed[i].name \in SeqRange(gen.enabled_tools)

\* C38: execute_mcp_tool accepts only names that begin with "mcp-": a name
\* that has "mcp-" further in, or nowhere, is refused with ValueError, and no
\* provider is found for it in what follows its first four characters.
C38_OnlyPrefixedNamesAccepted ==
    resolution.phase = "resolved" =>
        (~startswith(resolution.full_tool_name, MCP_PREFIX) =>
            resolution.result = ValueError)

\* ------------------------------------------------- the done callback
\* C39: the done callback of a supervised task takes only that task out of
\* _connection_tasks, never a newer task registered under the same name, in
\* any interleaving of initialize_from_config, the end of tasks,
\* close_all_connections and a later initialize_from_config; so while the
\* manager is initialized every running task is the one registered under its
\* provider's name, and the next close_all_connections cancels it.
CallbackRemovesOwnTask ==
    \A t \in TaskIds :
        tasks[t].cb_pending /\ ~tasks'[t].cb_pending =>
            \A n \in DOMAIN connection_tasks \ DOMAIN connection_tasks' :
                connection_tasks[n] = t
RunningTasksRegistered ==
    is_initialized =>
        \A t \in Running :
            /\ tasks[t].name \in DOMAIN connection_tasks
            /\ connection_tasks[tasks[t].name] = t
ShutdownCancelsRunning ==
    \A c \in Callers :
        cpc[c] # "close_gather" /\ cpc'[c] = "close_gather" =>
            \A t \in Running : t \in tasks_to_cancel'[c]
C39_CallbackKeepsNewerTask ==
    /\ [][CallbackRemovesOwnTask]_vars
    /\ []RunningTasksRegistered
    /\ [][ShutdownCancelsRunning]_vars


\* A provider is connected a second time after a shutdown: its first task is
\* done and its callback has run, and the second task, started by the next
\* initialize, is running and is the one _connection_tasks holds.
C39_Witness ==
    /\ is_initialized
    /\ \E old \in TaskIds : \E new \in Running :
          /\ old # new
          /\ tasks[old].name = tasks[new].name
          /\ done(tasks[old])
          /\ ~tasks[old].cb_pending
          /\ tasks[new].name \in DOMAIN connection_tasks
          /\ connection_tasks[tasks[new].name] = new


\* ----------------------------------- claim on a failure of gathering the tools
\* The gathering of a request's tools raised: tool use was asked for and the
\* try block of handle_chat_request did not reach its end.
gathering_raised == request.toolUse /\ ~request.gathered

\* The tools of the request that are not disabled, from what the tools
\* directory, the providers and the settings hold.
enabled_in_registry ==
    {name \in SeqRange(request.builtin) \cup SeqRange(request.remote) :
        request.settings = NoSettings \/ name \notin request.settings}

\* C40: when gathering or filtering the tools of a request raises, the request
\* does not fail: the vendor handler is called and returns (status 200), it is
\* handed no tools (None) and no tool schema is rendered, and the system prompt
\* it is handed is the caller's, without the tool-use instruction; and for
\* every request the tool-use instruction is appended to the system prompt
\* only when the filtered tool list is non-empty, that is when the list exists,
\* has an element, and some gathered tool is not disabled.
C40_GatheringFailureKeepsRequest ==
    request.pc \in {"gathered", "handled", "failed"} =>
        /\ gathering_raised =>
              /\ request.enabled_tools = NoneList
              /\ ~request.tool_use_instruction
              /\ request.pc # "failed"
              /\ request.pc = "handled" =>
                    /\ request.status = 200
                    /\ request.handed = NoneList
                    /\ request.tools = NoneList
        /\ request.tool_use_instruction =>
              /\ request.toolUse
              /\ request.enabled_tools # NoneList
              /\ request.enabled_tools # <<>>
              /\ enabled_in_registry # {}

\* Gathering raised for a request that asked for tools while builtin and
\* remote tools that are not disabled exist, and the vendor handler was called
\* with no tools and the caller's system prompt.
C40_Witness ==
    /\ request.pc = "handled"
    /\ gathering_raised
    /\ request.builtin # <<>>
    /\ request.remote # <<>>
    /\ enabled_in_registry # {}
    /\ request.handed = NoneList
    /\ ~request.tool_use_instruction
    /\ request.status = 200

====
